---- MODULE Spec2Model ----
(***************************************************************************)
(* ORCA local-navigation engine of bl-framework (assets/extensions/rvo):   *)
(* Simulator, Agent, Vector2D.                                             *)
(*                                                                         *)
(* Numbers.  A JavaScript number is modelled as a fixed-point integer n    *)
(* standing for n / SCALE, or as the value NaN.  Every arithmetic operator *)
(* propagates NaN and every comparison with NaN is false, as in IEEE 754.  *)
(***************************************************************************)
EXTENDS Integers, Sequences, FiniteSets, TLC

SCALE == 1000

NaN == -999999999

IsNaN(a) == a = NaN

\* Integer division of n by d rounded to the nearest integer (d # 0).
RoundDiv(n, d) ==
  IF d > 0 THEN (2 * n + d) \div (2 * d)
           ELSE (2 * (0 - n) + (0 - d)) \div (2 * (0 - d))

RECURSIVE SqrtSearch(_, _, _)
SqrtSearch(n, lo, hi) ==
  IF lo >= hi THEN lo
  ELSE LET mid == (lo + hi + 1) \div 2
       IN IF mid * mid <= n THEN SqrtSearch(n, mid, hi)
                            ELSE SqrtSearch(n, lo, mid - 1)

\* Floor of the square root of the integer n >= 0.
ISqrt(n) == SqrtSearch(n, 0, 46340)

NumAdd(a, b) == IF IsNaN(a) \/ IsNaN(b) THEN NaN ELSE a + b
NumSub(a, b) == IF IsNaN(a) \/ IsNaN(b) THEN NaN ELSE a - b
NumNeg(a) == IF IsNaN(a) THEN NaN ELSE 0 - a
NumMul(a, b) == IF IsNaN(a) \/ IsNaN(b) THEN NaN ELSE RoundDiv(a * b, SCALE)
\* a / b; 0 / 0 is NaN.  (x / 0 with x # 0 is an infinity in JavaScript; the
\* code modelled here divides a non-zero number only by non-zero ones.)
NumDiv(a, b) ==
  IF IsNaN(a) \/ IsNaN(b) \/ b = 0 THEN NaN ELSE RoundDiv(a * SCALE, b)
NumAbs(a) == IF IsNaN(a) THEN NaN ELSE IF a < 0 THEN 0 - a ELSE a
\* Math.sqrt: NaN for NaN and for a negative number.
NumSqrt(a) == IF IsNaN(a) \/ a < 0 THEN NaN ELSE ISqrt(a * SCALE)
\* Math.min / Math.max: NaN when an argument is NaN.
NumMin(a, b) == IF IsNaN(a) \/ IsNaN(b) THEN NaN ELSE IF a < b THEN a ELSE b
NumMax(a, b) == IF IsNaN(a) \/ IsNaN(b) THEN NaN ELSE IF a > b THEN a ELSE b

Lt(a, b) == ~IsNaN(a) /\ ~IsNaN(b) /\ a < b
Le(a, b) == ~IsNaN(a) /\ ~IsNaN(b) /\ a <= b
Gt(a, b) == ~IsNaN(a) /\ ~IsNaN(b) /\ a > b
Ge(a, b) == ~IsNaN(a) /\ ~IsNaN(b) /\ a >= b

(***************************************************************************)
(* Vector2D                                                                *)
(***************************************************************************)
Vec(x, y) == [x |-> x, y |-> y]

\* A field that was never assigned (prefVelocity, _newVelocity of a new Agent).
Undefined == [undefined |-> TRUE]

plus(a, b) == Vec(NumAdd(a.x, b.x), NumAdd(a.y, b.y))
minus(a, b) == Vec(NumSub(a.x, b.x), NumSub(a.y, b.y))
multiply(a, b) == NumAdd(NumMul(a.x, b.x), NumMul(a.y, b.y))
scale(a, k) == Vec(NumMul(a.x, k), NumMul(a.y, k))
\* v.scale(1 / d) and v.scale(-1 / d): the reciprocal is not rounded on its own.
scaleInv(a, d) == Vec(NumDiv(a.x, d), NumDiv(a.y, d))
VecIsNaN(a) == IsNaN(a.x) \/ IsNaN(a.y)

(***************************************************************************)
(* RVOMath                                                                 *)
(***************************************************************************)
RVO_EPSILON == 10

sqr(a) == NumMul(a, a)
absSq(v) == multiply(v, v)
\* Math.sqrt(absSq(v)), taken on the unrounded sum of squares.
abs(v) ==
  IF VecIsNaN(v) THEN NaN ELSE ISqrt(v.x * v.x + v.y * v.y)
det(a, b) == NumSub(NumMul(a.x, b.y), NumMul(a.y, b.x))
normalize(v) == scaleInv(v, abs(v))

(***************************************************************************)
(* Line: {point, direction}.  lines is a sequence; the code's index i is   *)
(* element i + 1.                                                          *)
(***************************************************************************)
Line(point, direction) == [point |-> point, direction |-> direction]

At(seq, i) == seq[i + 1]

(***************************************************************************)
(* Agent._linearProgram1.  The loop over the lines before lineNo narrows   *)
(* [tLeft, tRight]; ok = FALSE is one of its "return false".               *)
(***************************************************************************)
RECURSIVE linearProgram1Bounds(_, _, _, _, _)
linearProgram1Bounds(lines, lineNo, i, tLeft, tRight) ==
  IF i >= lineNo THEN [ok |-> TRUE, tLeft |-> tLeft, tRight |-> tRight]
  ELSE
    LET denominator == det(At(lines, lineNo).direction, At(lines, i).direction)
        numerator == det(At(lines, i).direction,
                         minus(At(lines, lineNo).point, At(lines, i).point))
    IN IF Le(NumAbs(denominator), RVO_EPSILON)
       THEN IF Lt(numerator, 0)
            THEN [ok |-> FALSE, tLeft |-> tLeft, tRight |-> tRight]
            ELSE linearProgram1Bounds(lines, lineNo, i + 1, tLeft, tRight)
       ELSE
         LET t == NumDiv(numerator, denominator)
             newRight == IF Ge(denominator, 0) THEN NumMin(tRight, t) ELSE tRight
             newLeft == IF Ge(denominator, 0) THEN tLeft ELSE NumMax(tLeft, t)
         IN IF Gt(newLeft, newRight)
            THEN [ok |-> FALSE, tLeft |-> newLeft, tRight |-> newRight]
            ELSE linearProgram1Bounds(lines, lineNo, i + 1, newLeft, newRight)

\* The t chosen within [tLeft, tRight]: an extreme when optimizing a
\* direction, else the one closest to the projection t of optVelocity.
linearProgram1Choose(direction, optVelocity, directionOpt, tLeft, tRight, t) ==
  IF directionOpt
  THEN IF Gt(multiply(optVelocity, direction), 0) THEN tRight ELSE tLeft
  ELSE IF Lt(t, tLeft) THEN tLeft
       ELSE IF Gt(t, tRight) THEN tRight
       ELSE t

\* The "ugly hack": a result with a NaN component is reported as a failure.
linearProgram1Finish(result) ==
  [ok |-> ~VecIsNaN(result), newVelocity |-> result]

\* The part of _linearProgram1 after the loop; b is the loop's outcome.
linearProgram1Optimize(point, direction, optVelocity, directionOpt, b) ==
  IF ~b.ok THEN [ok |-> FALSE, newVelocity |-> Undefined]
  ELSE linearProgram1Finish(
         plus(scale(direction,
                    linearProgram1Choose(direction, optVelocity, directionOpt,
                       b.tLeft, b.tRight,
                       multiply(direction, minus(optVelocity, point)))),
              point))

\* The part of _linearProgram1 from "var sqrtDiscriminant" on.
linearProgram1Narrow(lines, lineNo, optVelocity, directionOpt, dotProduct, sqrtDiscriminant) ==
  linearProgram1Optimize(At(lines, lineNo).point, At(lines, lineNo).direction,
    optVelocity, directionOpt,
    linearProgram1Bounds(lines, lineNo, 0,
                         NumSub(NumNeg(dotProduct), sqrtDiscriminant),
                         NumAdd(NumNeg(dotProduct), sqrtDiscriminant)))

\* Returns [ok, newVelocity]; newVelocity is meaningful only when ok.
linearProgram1(lines, lineNo, radius, optVelocity, directionOpt) ==
  LET dotProduct == multiply(At(lines, lineNo).point, At(lines, lineNo).direction)
      discriminant == NumSub(NumAdd(sqr(dotProduct), sqr(radius)),
                             absSq(At(lines, lineNo).point))
  IN IF Lt(discriminant, 0)
     THEN [ok |-> FALSE, newVelocity |-> Undefined]
     ELSE linearProgram1Narrow(lines, lineNo, optVelocity, directionOpt,
                               dotProduct, NumSqrt(discriminant))

(***************************************************************************)
(* Agent._linearProgram2.  self is the agent (this): the 1D sub-solve is   *)
(* handed this.radius.  Returns [lineFail, newVelocity, isOpt]; isOpt says *)
(* that _newVelocity is the very object optVelocity.                       *)
(***************************************************************************)
\* The radius _linearProgram2 passes to _linearProgram1.
SubSolveRadius(self, radius) == self.radius

\* A faulty test that takes the other side of the line for the admissible one.
violatesLineFlipped(line, v) == Gt(det(line.direction, minus(v, line.point)), 0)

\* _temp3.copy(lines[i].point).subSelf(_newVelocity);
\* if (RVOMath.det(lines[i].direction, _temp3) > 0.0)
violatesLine(line, v) == Gt(det(line.direction, minus(line.point, v)), 0)

\* What is recorded of one pass of the loop of _linearProgram2: the line, the
\* candidate it was tested against, whether the 1D sub-solve was called and
\* the radius it was handed, NaN without a sub-solve (observation only).
Tested(i, v, subSolve, radius) ==
  [lineNo |-> i, candidate |-> v, subSolve |-> subSolve, radius |-> radius]

RECURSIVE linearProgram2Loop(_, _, _, _, _, _, _, _, _)

\* A faulty loop body without "this._newVelocity = tempResult": what a failed
\* 1D sub-solve assigned stays.
linearProgram2ViolatedUnrestored(self, lines, radius, optVelocity, directionOpt, i, cur, isOpt, r, trace) ==
  IF ~r.ok
  THEN [lineFail |-> i,
        newVelocity |-> IF r.newVelocity = Undefined THEN cur ELSE r.newVelocity,
        isOpt |-> isOpt, trace |-> trace]
  ELSE linearProgram2Loop(self, lines, radius, optVelocity, directionOpt,
                          i + 1, r.newVelocity, FALSE, trace)

\* Line i is violated by cur and r is the outcome of its 1D sub-solve.
linearProgram2Violated(self, lines, radius, optVelocity, directionOpt, i, cur, isOpt, r, trace) ==
  IF ~r.ok
  THEN [lineFail |-> i, newVelocity |-> cur, isOpt |-> isOpt, trace |-> trace]
  ELSE linearProgram2Loop(self, lines, radius, optVelocity, directionOpt,
                          i + 1, r.newVelocity, FALSE, trace)

linearProgram2Loop(self, lines, radius, optVelocity, directionOpt, i, cur, isOpt, trace) ==
  IF i >= Len(lines)
  THEN [lineFail |-> Len(lines), newVelocity |-> cur, isOpt |-> isOpt, trace |-> trace]
  ELSE
    IF violatesLine(At(lines, i), cur)
    THEN linearProgram2Violated(self, lines, radius, optVelocity, directionOpt,
           i, cur, isOpt,
           linearProgram1(lines, i, SubSolveRadius(self, radius), optVelocity,
                          directionOpt),
           Append(trace, Tested(i, cur, TRUE, SubSolveRadius(self, radius))))
    ELSE linearProgram2Loop(self, lines, radius, optVelocity, directionOpt,
                            i + 1, cur, isOpt,
                            Append(trace, Tested(i, cur, FALSE, NaN)))

\* A faulty start that never clamps the optimization velocity to the disc.
linearProgram2StartUnclamped(radius, optVelocity, directionOpt) ==
  IF directionOpt
  THEN [v |-> scale(optVelocity, radius), isOpt |-> FALSE]
  ELSE [v |-> optVelocity, isOpt |-> TRUE]

\* The candidate _linearProgram2 starts from: [v, isOpt].
linearProgram2Start(radius, optVelocity, directionOpt) ==
  IF directionOpt
  THEN [v |-> scale(optVelocity, radius), isOpt |-> FALSE]
  ELSE IF Gt(absSq(optVelocity), sqr(radius))
  THEN [v |-> scale(normalize(optVelocity), radius), isOpt |-> FALSE]
  ELSE [v |-> optVelocity, isOpt |-> TRUE]

linearProgram2From(self, lines, radius, optVelocity, directionOpt, start) ==
  linearProgram2Loop(self, lines, radius, optVelocity, directionOpt, 0,
                     start.v, start.isOpt, <<>>)

linearProgram2(self, lines, radius, optVelocity, directionOpt) ==
  linearProgram2From(self, lines, radius, optVelocity, directionOpt,
                     linearProgram2Start(radius, optVelocity, directionOpt))

(***************************************************************************)
(* Agent._linearProgram3.                                                  *)
(***************************************************************************)
\* The line pushed to projLines for lines i and j that are not parallel in
\* the same direction.
projLine(li, lj, determinant) ==
  Line(IF Le(NumAbs(determinant), RVO_EPSILON)
       THEN scale(plus(li.point, lj.point), SCALE \div 2)
       ELSE plus(li.point,
                 scale(li.direction,
                       NumDiv(det(lj.direction, minus(li.point, lj.point)),
                              determinant))),
       normalize(minus(lj.direction, li.direction)))

RECURSIVE projLinesFrom(_, _, _, _)
\* projLines after the loop over j = j .. i - 1, started from acc.
projLinesFrom(lines, i, j, acc) ==
  IF j >= i THEN acc
  ELSE IF Le(NumAbs(det(At(lines, i).direction, At(lines, j).direction)),
             RVO_EPSILON)
          /\ Gt(multiply(At(lines, i).direction, At(lines, j).direction), 0)
  THEN projLinesFrom(lines, i, j + 1, acc)
  ELSE projLinesFrom(lines, i, j + 1,
         Append(acc, projLine(At(lines, i), At(lines, j),
                              det(At(lines, i).direction, At(lines, j).direction))))

RECURSIVE linearProgram3Loop(_, _, _, _, _, _, _, _, _)

\* What is recorded of one sub-program of _linearProgram3: the line, the
\* projected lines, the velocity held before and after, and whether
\* _linearProgram2 failed on it (observation only).
SubProgram(i, projLines, before, failed, after) ==
  [lineNo |-> i, projLines |-> projLines, before |-> before, failed |-> failed,
   after |-> after]

\* The rest of the loop body once the candidate after line i is known.
linearProgram3Next(self, lines, numObstLines, radius, i, next, isOpt, trace) ==
  linearProgram3Loop(self, lines, numObstLines, radius, i + 1,
    det(At(lines, i).direction, minus(At(lines, i).point, next)), next, isOpt,
    trace)

\* A faulty end of the sub-program without "this._newVelocity = tempResult":
\* what the failed _linearProgram2 left stays.
linearProgram3KeepUnrestored(self, lines, numObstLines, radius, i, cur, isOpt, r, projLines, trace) ==
  linearProgram3Next(self, lines, numObstLines, radius, i, r.newVelocity, FALSE,
    Append(trace, SubProgram(i, projLines, cur, r.lineFail < Len(projLines),
                             r.newVelocity)))

\* r is the outcome of _linearProgram2 on the projected lines: on failure
\* the result held before (tempResult) is kept.
linearProgram3Keep(self, lines, numObstLines, radius, i, cur, isOpt, r, projLines, trace) ==
  IF r.lineFail < Len(projLines)
  THEN linearProgram3Next(self, lines, numObstLines, radius, i, cur, isOpt,
         Append(trace, SubProgram(i, projLines, cur, TRUE, cur)))
  ELSE linearProgram3Next(self, lines, numObstLines, radius, i, r.newVelocity,
         FALSE,
         Append(trace, SubProgram(i, projLines, cur, FALSE, r.newVelocity)))

linearProgram3Project(self, lines, numObstLines, radius, i, cur, isOpt, projLines, trace) ==
  linearProgram3Keep(self, lines, numObstLines, radius, i, cur, isOpt,
    linearProgram2(self, projLines, radius,
                   Vec(NumNeg(At(lines, i).direction.y), At(lines, i).direction.x),
                   TRUE),
    projLines, trace)

linearProgram3Loop(self, lines, numObstLines, radius, i, distance, cur, isOpt, trace) ==
  IF i >= Len(lines) THEN [newVelocity |-> cur, isOpt |-> isOpt, trace |-> trace]
  ELSE
    IF Gt(det(At(lines, i).direction, minus(At(lines, i).point, cur)), distance)
    THEN linearProgram3Project(self, lines, numObstLines, radius, i, cur, isOpt,
           projLinesFrom(lines, i, numObstLines, SubSeq(lines, 1, numObstLines)),
           trace)
    ELSE linearProgram3Loop(self, lines, numObstLines, radius, i + 1, distance,
                            cur, isOpt, trace)

linearProgram3(self, lines, numObstLines, beginLine, radius, cur, isOpt) ==
  linearProgram3Loop(self, lines, numObstLines, radius, beginLine, 0, cur, isOpt,
                     <<>>)

(***************************************************************************)
(* What every Simulator of the program shares: the static pool of Vector2D *)
(* (poolSize is Vector2D._poolSize) and the generator behind Math.random   *)
(* (seed is the number it returns next, 0 or 1).                           *)
(***************************************************************************)
VARIABLE statics

(***************************************************************************)
(* Agent.  An agent object is a record; agents refer to each other by id   *)
(* (the object's identity) through the simulator's objects.                *)
(*   velIsPref: velocity and prefVelocity are one Vector2D object          *)
(*   newIsPref: _newVelocity and prefVelocity are one Vector2D object      *)
(*   velIsDefault: velocity and defaultAgent.velocity are one object       *)
(*   orcaInfo:  for each agent ORCA line, the intermediate values of its   *)
(*              construction (observation only)                            *)
(*   obstInfo:  for each obstacle ORCA line, the branch that built it and  *)
(*              the cut-off centers (observation only); its length is      *)
(*              numObstLines                                               *)
(*   lineFail:  what _linearProgram2 returned to computeNewVelocity        *)
(*   fallback:  the call of _linearProgram3 by the last computeNewVelocity *)
(*              and its sub-programs, Undefined without a call             *)
(*              (observation only)                                         *)
(***************************************************************************)
KeyValuePair(key, value) == [key |-> key, value |-> value]

RECURSIVE insertIndex(_, _, _)
\* while (i != 0 && distSq < neighbors[i - 1].key) --i
insertIndex(neighbors, i, distSq) ==
  IF i # 0 /\ Lt(distSq, At(neighbors, i - 1).key)
  THEN insertIndex(neighbors, i - 1, distSq)
  ELSE i

\* Agent.insertAgentNeighbor: the neighbor list after the call.  The
\* assignment to the parameter rangeSq is local to the call.
insertAgentNeighbor(self, neighbors, agent, rangeSq) ==
  IF self.id = agent.id THEN neighbors
  ELSE
    LET distSq == absSq(minus(self.position, agent.position))
    IN IF ~Lt(distSq, rangeSq) THEN neighbors
       ELSE
         LET pushed == IF Len(neighbors) < self.maxNeighbors
                       THEN Append(neighbors, KeyValuePair(distSq, agent.id))
                       ELSE neighbors
             i == insertIndex(pushed, Len(pushed) - 1, distSq)
         IN [k \in 1..Len(pushed) |->
               IF k - 1 < i THEN pushed[k]
               ELSE IF k - 1 = i THEN KeyValuePair(distSq, agent.id)
               ELSE pushed[k - 1]]

RECURSIVE computeAgentNeighbors(_, _, _, _, _, _)
\* KdTree.computeAgentNeighbors on a tree of one leaf (MAXLEAF_SIZE = 1000):
\* every agent of the tree is offered to insertAgentNeighbor, in array order.
computeAgentNeighbors(self, tree, objs, rangeSq, k, neighbors) ==
  IF k > Len(tree) THEN neighbors
  ELSE computeAgentNeighbors(self, tree, objs, rangeSq, k + 1,
         insertAgentNeighbor(self, neighbors, objs[tree[k]], rangeSq))

(***************************************************************************)
(* Obstacles.  The simulator's obstacle list is a sequence of segments; a  *)
(* reference to a segment (previous, next, an obstacle neighbor) is its    *)
(* index in the list, counted from 0, and NoObstacle where the field was   *)
(* never assigned.                                                         *)
(***************************************************************************)
NoObstacle == -1

\* new Obstacle() with obstacle.point = vertices[i].
NewObstacle(point) ==
  [point |-> point, unitDir |-> Undefined, isConvex |-> FALSE,
   previous |-> NoObstacle, next |-> NoObstacle, id |-> NoObstacle]

\* RVOMath.leftOf(a, b, c)
leftOf(a, b, c) == det(minus(a, c), minus(b, a))

\* RVOMath.distSqPointLineSegment(a, b, c): c's squared distance to segment ab.
distSqPointLineSegment(a, b, c) ==
  LET r == NumDiv(multiply(minus(c, a), minus(b, a)), absSq(minus(b, a)))
  IN IF Lt(r, 0) THEN absSq(minus(c, a))
     ELSE IF Gt(r, SCALE) THEN absSq(minus(c, b))
     ELSE absSq(minus(c, plus(a, scale(minus(b, a), r))))

\* A faulty guard that lets a single vertex through.
tooFewVerticesOne(vertices) == Len(vertices) < 1

\* if (vertices.length < 2) return -1
tooFewVertices(vertices) == Len(vertices) < 2

\* A faulty link that leaves the previous segment's next unassigned.
linkPreviousOneWay(obs, obstacle, i) ==
  IF i # 0
  THEN [obs |-> obs, obstacle |-> [obstacle EXCEPT !.previous = Len(obs) - 1]]
  ELSE [obs |-> obs, obstacle |-> obstacle]

\* if (i != 0) { obstacle.previous = obstacles[obstacles.length - 1];
\*               obstacle.previous.next = obstacle }
\* The obstacle is pushed afterwards, at index obstacles.length.
linkPrevious(obs, obstacle, i) ==
  IF i # 0
  THEN [obs |-> [obs EXCEPT ![Len(obs)].next = Len(obs)],
        obstacle |-> [obstacle EXCEPT !.previous = Len(obs) - 1]]
  ELSE [obs |-> obs, obstacle |-> obstacle]

\* A faulty ring that closes on the first segment of the list.
ringFirstOfList(obstacleNo) == 0

\* this.obstacles[obstacleNo]: the first segment of the polygon being added.
ringFirst(obstacleNo) == obstacleNo

\* if (i == vertices.length - 1) { obstacle.next = obstacles[obstacleNo];
\*                                 obstacle.next.previous = obstacle }
linkNext(linked, i, n, obstacleNo) ==
  IF i = n - 1
  THEN [obs |-> [linked.obs EXCEPT ![ringFirst(obstacleNo) + 1].previous = Len(linked.obs)],
        obstacle |-> [linked.obstacle EXCEPT !.next = ringFirst(obstacleNo)]]
  ELSE linked

\* The index of the vertex after i and of the vertex before i.
nextVertex(i, n) == IF i = n - 1 THEN 0 ELSE i + 1
previousVertex(i, n) == IF i = 0 THEN n - 1 ELSE i - 1

\* obstacle.isConvex
isConvexAt(vertices, i, n) ==
  IF n = 2 THEN TRUE
  ELSE Ge(leftOf(At(vertices, previousVertex(i, n)), At(vertices, i),
                 At(vertices, nextVertex(i, n))), 0)

\* One iteration of addObstacle's loop: the obstacle list after the push.
addObstacleVertex(obs, vertices, obstacleNo, i) ==
  LET n == Len(vertices)
      linked == linkNext(linkPrevious(obs, NewObstacle(At(vertices, i)), i),
                         i, n, obstacleNo)
  IN Append(linked.obs,
            [linked.obstacle EXCEPT
               !.unitDir = normalize(minus(At(vertices, nextVertex(i, n)),
                                            At(vertices, i))),
               !.isConvex = isConvexAt(vertices, i, n),
               !.id = Len(obs)])

RECURSIVE addObstacleFrom(_, _, _, _)
\* for (var i = 0, len = vertices.length; i < len; ++i)
addObstacleFrom(obs, vertices, obstacleNo, i) ==
  IF i >= Len(vertices) THEN obs
  ELSE addObstacleFrom(addObstacleVertex(obs, vertices, obstacleNo, i),
                       vertices, obstacleNo, i + 1)

\* Simulator.addObstacle: the value returned and the obstacle list afterwards.
addObstacle(obs, vertices) ==
  IF tooFewVertices(vertices)
  THEN [ret |-> -1, obstacles |-> obs]
  ELSE [ret |-> Len(obs), obstacles |-> addObstacleFrom(obs, vertices, Len(obs), 0)]

\* KdTree.buildObstacleTree: the tree holds the segments of the list and
\* leaves them as they are.
buildObstacleTree(obs) == [k \in 1..Len(obs) |-> k - 1]

\* A faulty insertion that keeps the arrival order.
insertObstacleIndexLast(neighbors, i, distSq) == i

\* The index at which insertObstacleNeighbor stores the segment:
\*   while (i != 0 && distSq < obstaclNeighbors[i - 1].key) --i
insertObstacleIndex(neighbors, i, distSq) == insertIndex(neighbors, i, distSq)

\* Agent.insertObstacleNeighbor: the obstacle neighbor list after the call.
insertObstacleNeighbor(self, neighbors, obs, obstacle, rangeSq) ==
  LET nextObstacle == At(obs, At(obs, obstacle).next)
      distSq == distSqPointLineSegment(At(obs, obstacle).point, nextObstacle.point,
                                       self.position)
  IN IF ~Lt(distSq, rangeSq) THEN neighbors
     ELSE
       LET pushed == Append(neighbors, KeyValuePair(distSq, obstacle))
           i == insertObstacleIndex(pushed, Len(pushed) - 1, distSq)
       IN [k \in 1..Len(pushed) |->
             IF k - 1 < i THEN pushed[k]
             ELSE IF k - 1 = i THEN KeyValuePair(distSq, obstacle)
             ELSE pushed[k - 1]]

RECURSIVE computeObstacleNeighbors(_, _, _, _, _, _)
\* KdTree.computeObstacleNeighbors: every segment of the tree is offered to
\* insertObstacleNeighbor, in the tree's order; an unbuilt tree offers none.
computeObstacleNeighbors(self, obstacleTree, obs, rangeSq, k, neighbors) ==
  IF k > Len(obstacleTree) THEN neighbors
  ELSE computeObstacleNeighbors(self, obstacleTree, obs, rangeSq, k + 1,
         insertObstacleNeighbor(self, neighbors, obs, obstacleTree[k], rangeSq))

\* rangeSq = RVOMath.sqr(this.timeHorizonObst * this.maxSpeed + this.radius)
obstacleRangeSq(self) ==
  sqr(NumAdd(NumMul(self.timeHorizonObst, self.maxSpeed), self.radius))

\* Agent.computeNeighbors: the agent after the call.
computeNeighbors(self, tree, objs, obstacleTree, obs) ==
  [self EXCEPT
     !.obstaclNeighbors =
        computeObstacleNeighbors(self, obstacleTree, obs, obstacleRangeSq(self), 1, <<>>),
     !.agentNeighbors =
        IF self.maxNeighbors > 0
        THEN computeAgentNeighbors(self, tree, objs, sqr(self.neighborDist), 1, <<>>)
        ELSE <<>>]

\* w as the code computes it in place:
\*   _temp3.copy(relativePosition).scaleSelf(1 / horizon);
\*   _temp3.copy(relativeVelocity).subSelf(_temp3)
\* The second copy overwrites _temp3, which is then subtracted from itself.
cutoffToVelocity(relativePosition, relativeVelocity, horizon) ==
  LET temp3Scaled == scaleInv(relativePosition, horizon)
      temp3 == relativeVelocity
  IN minus(temp3, temp3)

\* line.point = u.scale(0.5).plus(this.velocity), with what is recorded of
\* the construction.
orcaLineOf(self, otherId, relativePosition, relativeVelocity, w, branch, direction, u) ==
  [line |-> Line(plus(scale(u, SCALE \div 2), self.velocity), direction),
   info |-> [other |-> otherId, branch |-> branch, w |-> w,
             relativePosition |-> relativePosition,
             relativeVelocity |-> relativeVelocity]]

\* "Project on cut-off circle", of time timeHorizon or (collision) timeStep:
\* horizon is that time.
cutoffCircleLine(self, otherId, relativePosition, relativeVelocity, w, branch, combinedRadius, horizon, wLength, unitW) ==
  orcaLineOf(self, otherId, relativePosition, relativeVelocity, w, branch,
             Vec(unitW.y, NumNeg(unitW.x)),
             scale(unitW, NumSub(NumDiv(combinedRadius, horizon), wLength)))

\* "Project on legs", once line.direction is known.
legLineOf(self, otherId, relativePosition, relativeVelocity, w, branch, direction) ==
  orcaLineOf(self, otherId, relativePosition, relativeVelocity, w, branch,
             direction,
             minus(scale(direction, multiply(relativeVelocity, direction)),
                   relativeVelocity))

legLine(self, otherId, relativePosition, relativeVelocity, w, combinedRadius, distSq, leg) ==
  IF Gt(det(relativePosition, w), 0)
  THEN legLineOf(self, otherId, relativePosition, relativeVelocity, w, "left",
         scaleInv(Vec(NumSub(NumMul(relativePosition.x, leg),
                             NumMul(relativePosition.y, combinedRadius)),
                      NumAdd(NumMul(relativePosition.x, combinedRadius),
                             NumMul(relativePosition.y, leg))),
                  distSq))
  ELSE legLineOf(self, otherId, relativePosition, relativeVelocity, w, "right",
         scaleInv(Vec(NumAdd(NumMul(relativePosition.x, leg),
                             NumMul(relativePosition.y, combinedRadius)),
                      NumAdd(NumNeg(NumMul(relativePosition.x, combinedRadius)),
                             NumMul(relativePosition.y, leg))),
                  NumNeg(distSq)))

\* The "No collision" branch, w given.
noCollisionLine(self, otherId, relativePosition, relativeVelocity, w, combinedRadius, distSq, dotProduct1) ==
  IF Lt(dotProduct1, 0)
     /\ Gt(sqr(dotProduct1), NumMul(sqr(combinedRadius), absSq(w)))
  THEN cutoffCircleLine(self, otherId, relativePosition, relativeVelocity, w,
                        "cutoff", combinedRadius, self.timeHorizon, abs(w),
                        scaleInv(w, abs(w)))
  ELSE legLine(self, otherId, relativePosition, relativeVelocity, w,
               combinedRadius, distSq,
               NumSqrt(NumSub(distSq, sqr(combinedRadius))))

\* The "Collision" branch, w given.
collisionLine(self, otherId, relativePosition, relativeVelocity, w, combinedRadius, timeStep) ==
  cutoffCircleLine(self, otherId, relativePosition, relativeVelocity, w,
                   "collision", combinedRadius, timeStep, abs(w),
                   scaleInv(w, abs(w)))

\* The loop body of "Create agent ORCA lines" after relativePosition,
\* relativeVelocity, distSq and combinedRadius are computed.
agentOrcaLineFor(self, otherId, relativePosition, relativeVelocity, distSq, combinedRadius, timeStep) ==
  IF Gt(distSq, sqr(combinedRadius))
  THEN noCollisionLine(self, otherId, relativePosition, relativeVelocity,
         cutoffToVelocity(relativePosition, relativeVelocity, self.timeHorizon),
         combinedRadius, distSq,
         multiply(cutoffToVelocity(relativePosition, relativeVelocity,
                                   self.timeHorizon),
                  relativePosition))
  ELSE collisionLine(self, otherId, relativePosition, relativeVelocity,
         cutoffToVelocity(relativePosition, relativeVelocity, timeStep),
         combinedRadius, timeStep)

\* One iteration of "Create agent ORCA lines": [line, info].
agentOrcaLine(self, other, timeStep) ==
  agentOrcaLineFor(self, other.id,
                   minus(other.position, self.position),
                   minus(self.velocity, other.velocity),
                   absSq(minus(other.position, self.position)),
                   NumAdd(self.radius, other.radius), timeStep)

\* "Create agent ORCA lines" for the whole neighbor list.
agentOrcaLines(self, objs, timeStep) ==
  [k \in 1..Len(self.agentNeighbors) |->
     agentOrcaLine(self, objs[self.agentNeighbors[k].value], timeStep)]

(***************************************************************************)
(* "Create obstacle ORCA lines" of Agent.computeNewVelocity.  What one     *)
(* obstacle neighbor contributes is [skip] or [skip, line, branch,         *)
(* leftCutoff, rightCutoff]: the line pushed, the branch that built it and *)
(* the two cut-off centers of the neighbor (observation only).             *)
(***************************************************************************)
\* The "continue" without a push.
NoObstacleLine == [skip |-> TRUE]

\* orcaLines.push(line) of a collision branch: no cut-off center is computed.
collisionObstacleLine(direction, branch) ==
  [skip |-> FALSE, line |-> Line(Vec(0, 0), direction), branch |-> branch,
   leftCutoff |-> Undefined, rightCutoff |-> Undefined]

\* orcaLines.push(line) after the cut-off centers were computed.
obstacleLineOf(point, direction, branch, leftCutoff, rightCutoff) ==
  [skip |-> FALSE, line |-> Line(point, direction), branch |-> branch,
   leftCutoff |-> leftCutoff, rightCutoff |-> rightCutoff]

\* Stands for Infinity among the squared distances of the model.
Infinity == SCALE * SCALE * SCALE

\* const invTimeHorizonObst = 1.0 / this.timeHorizonObst
invTimeHorizonObst(self) == NumDiv(SCALE, self.timeHorizonObst)

\* The loop over j that sets alreadyCovered.
alreadyCovered(self, relativePosition1, relativePosition2, lines) ==
  \E j \in 1..Len(lines) :
     /\ Ge(NumSub(det(minus(scale(relativePosition1, invTimeHorizonObst(self)),
                            lines[j].point),
                      lines[j].direction),
                  NumMul(invTimeHorizonObst(self), self.radius)),
           0 - RVO_EPSILON)
     /\ Ge(NumSub(det(minus(scale(relativePosition2, invTimeHorizonObst(self)),
                            lines[j].point),
                      lines[j].direction),
                  NumMul(invTimeHorizonObst(self), self.radius)),
           0 - RVO_EPSILON)

\* aux.scale(radius * invTimeHorizonObst).plus(cutoff), aux the left normal
\* of direction: the point of a line on a leg or on the cut-off line.
offsetFrom(self, direction, cutoff) ==
  plus(scale(Vec(NumNeg(direction.y), direction.x),
             NumMul(self.radius, invTimeHorizonObst(self))),
       cutoff)

\* "Project on right leg":
\*   line.direction = rightLegDirection.scale(-1);
\*   line.point = this._temp4.plus(leftCutoff)
rightLegLine(self, rightLegDirection, leftCutoff, rightCutoff) ==
  obstacleLineOf(offsetFrom(self, scale(rightLegDirection, 0 - SCALE), leftCutoff),
                 scale(rightLegDirection, 0 - SCALE), "rightLeg",
                 leftCutoff, rightCutoff)

\* "Project on left leg, right leg, or cut-off line, whichever is closest".
obstacleNearest(self, unitDir1, leftLegDirection, rightLegDirection, isLeftLegForeign, isRightLegForeign, leftCutoff, rightCutoff, distSqCutoff, distSqLeft, distSqRight) ==
  IF Le(distSqCutoff, distSqLeft) /\ Le(distSqCutoff, distSqRight)
  THEN obstacleLineOf(offsetFrom(self, scale(unitDir1, 0 - SCALE), leftCutoff),
                      scale(unitDir1, 0 - SCALE), "cutoffLine",
                      leftCutoff, rightCutoff)
  ELSE IF Le(distSqLeft, distSqRight)
  THEN IF isLeftLegForeign THEN NoObstacleLine
       ELSE obstacleLineOf(offsetFrom(self, leftLegDirection, leftCutoff),
                           leftLegDirection, "leftLeg", leftCutoff, rightCutoff)
  ELSE IF isRightLegForeign THEN NoObstacleLine
       ELSE rightLegLine(self, rightLegDirection, leftCutoff, rightCutoff)

\* "Project on left cut-off circle" and "Project on right cut-off circle":
\* cutoff is the center of the circle.
cutoffCircleObstacleLine(self, cutoff, branch, leftCutoff, rightCutoff) ==
  obstacleLineOf(plus(cutoff,
                      scale(normalize(minus(self.velocity, cutoff)),
                            NumMul(self.radius, invTimeHorizonObst(self)))),
                 Vec(normalize(minus(self.velocity, cutoff)).y,
                     NumNeg(normalize(minus(self.velocity, cutoff)).x)),
                 branch, leftCutoff, rightCutoff)

\* The projection of the current velocity on the velocity obstacle, from t,
\* tLeft and tRight on; same is obstacle1 == obstacle2.
obstacleProjectAt(self, unitDir1, same, leftLegDirection, rightLegDirection, isLeftLegForeign, isRightLegForeign, leftCutoff, rightCutoff, cutoffVec, t, tLeft, tRight) ==
  IF (Lt(t, 0) /\ Lt(tLeft, 0)) \/ (same /\ Lt(tLeft, 0) /\ Lt(tRight, 0))
  THEN cutoffCircleObstacleLine(self, leftCutoff, "leftCircle", leftCutoff, rightCutoff)
  ELSE IF Gt(t, SCALE) /\ Lt(tRight, 0)
  THEN cutoffCircleObstacleLine(self, rightCutoff, "rightCircle", leftCutoff, rightCutoff)
  ELSE obstacleNearest(self, unitDir1, leftLegDirection, rightLegDirection,
         isLeftLegForeign, isRightLegForeign, leftCutoff, rightCutoff,
         IF Lt(t, 0) \/ Gt(t, SCALE) \/ same THEN Infinity
         ELSE absSq(minus(self.velocity, plus(scale(cutoffVec, t), leftCutoff))),
         IF Lt(tLeft, 0) THEN Infinity
         ELSE absSq(minus(self.velocity,
                          plus(scale(leftLegDirection, tLeft), leftCutoff))),
         IF Lt(tRight, 0) THEN Infinity
         ELSE absSq(minus(self.velocity,
                          plus(scale(rightLegDirection, tRight), rightCutoff))))

\* "Compute cut-off centers" and t, tLeft, tRight.
obstacleProject(self, obstacle1, obstacle2, same, leftLegDirection, rightLegDirection, isLeftLegForeign, isRightLegForeign) ==
  LET leftCutoff == scale(minus(obstacle1.point, self.position), invTimeHorizonObst(self))
      rightCutoff == scale(minus(obstacle2.point, self.position), invTimeHorizonObst(self))
      cutoffVec == minus(rightCutoff, leftCutoff)
  IN obstacleProjectAt(self, obstacle1.unitDir, same, leftLegDirection,
       rightLegDirection, isLeftLegForeign, isRightLegForeign,
       leftCutoff, rightCutoff, cutoffVec,
       IF same THEN SCALE \div 2
       ELSE NumDiv(multiply(minus(self.velocity, leftCutoff), cutoffVec),
                   absSq(cutoffVec)),
       multiply(minus(self.velocity, leftCutoff), leftLegDirection),
       multiply(minus(self.velocity, rightCutoff), rightLegDirection))

\* "Legs can never point into neighboring edge when convex vertex": the
\* foreign legs.  leftNeighbor is obstacle1.previous.
obstacleForeignLegs(self, obstacle1, obstacle2, same, leftNeighbor, leftLegDirection, rightLegDirection) ==
  LET isLeftLegForeign ==
        obstacle1.isConvex
          /\ Ge(det(leftLegDirection, scale(leftNeighbor.unitDir, 0 - SCALE)), 0)
      isRightLegForeign ==
        obstacle2.isConvex /\ Le(det(rightLegDirection, obstacle2.unitDir), 0)
  IN obstacleProject(self, obstacle1, obstacle2, same,
       IF isLeftLegForeign THEN scale(leftNeighbor.unitDir, 0 - SCALE)
                           ELSE leftLegDirection,
       IF isRightLegForeign THEN obstacle2.unitDir ELSE rightLegDirection,
       isLeftLegForeign, isRightLegForeign)

\* The leg through a vertex at relativePosition that keeps the vertex on its
\* left (side = 1, a left leg) or on its right (side = -1, a right leg):
\*   _temp.set(x * leg - side * y * radius, side * x * radius + y * leg)
\*   _temp.scale(1 / distSq)
legDirection(self, relativePosition, distSq, side) ==
  LET leg == NumSqrt(NumSub(distSq, sqr(self.radius)))
  IN scaleInv(Vec(NumSub(NumMul(relativePosition.x, leg),
                         NumMul(relativePosition.y, side * self.radius)),
                  NumAdd(NumMul(relativePosition.x, side * self.radius),
                         NumMul(relativePosition.y, leg))),
              distSq)

\* "No collision.  Compute legs."
obstacleLegs(self, obs, obstacle1, obstacle2, relativePosition1, relativePosition2, distSq1, distSq2, s, distSqLine) ==
  IF Lt(s, 0) /\ Le(distSqLine, sqr(self.radius))
  THEN IF ~obstacle1.isConvex THEN NoObstacleLine
       ELSE obstacleForeignLegs(self, obstacle1, obstacle1, TRUE,
              At(obs, obstacle1.previous),
              legDirection(self, relativePosition1, distSq1, 1),
              legDirection(self, relativePosition1, distSq1, -1))
  ELSE IF Gt(s, SCALE) /\ Le(distSqLine, sqr(self.radius))
  THEN IF ~obstacle2.isConvex THEN NoObstacleLine
       ELSE obstacleForeignLegs(self, obstacle2, obstacle2, TRUE,
              At(obs, obstacle2.previous),
              legDirection(self, relativePosition2, distSq2, 1),
              legDirection(self, relativePosition2, distSq2, -1))
  ELSE obstacleForeignLegs(self, obstacle1, obstacle2, FALSE,
         At(obs, obstacle1.previous),
         IF obstacle1.isConvex THEN legDirection(self, relativePosition1, distSq1, 1)
                               ELSE scale(obstacle1.unitDir, 0 - SCALE),
         IF obstacle2.isConvex THEN legDirection(self, relativePosition2, distSq2, -1)
                               ELSE obstacle1.unitDir)

\* "Not yet covered.  Check for collisions."
obstacleCollisions(self, obs, obstacle1, obstacle2, relativePosition1, relativePosition2, distSq1, distSq2, s, distSqLine) ==
  IF Lt(s, 0) /\ Le(distSq1, sqr(self.radius))
  THEN IF obstacle1.isConvex
       THEN collisionObstacleLine(
              normalize(Vec(NumNeg(relativePosition1.y), relativePosition1.x)),
              "collisionLeft")
       ELSE NoObstacleLine
  ELSE IF Gt(s, SCALE) /\ Le(distSq2, sqr(self.radius))
  THEN IF obstacle2.isConvex /\ Ge(det(relativePosition2, obstacle2.unitDir), 0)
       THEN collisionObstacleLine(
              normalize(Vec(NumNeg(relativePosition2.y), relativePosition2.x)),
              "collisionRight")
       ELSE NoObstacleLine
  ELSE IF Ge(s, 0) /\ Lt(s, SCALE) /\ Le(distSqLine, sqr(self.radius))
  THEN collisionObstacleLine(scale(obstacle1.unitDir, 0 - SCALE), "collisionSegment")
  ELSE obstacleLegs(self, obs, obstacle1, obstacle2, relativePosition1,
                    relativePosition2, distSq1, distSq2, s, distSqLine)

\* s and distSqLine of the segment from obstacle1 to obstacle2.
obstacleDistances(self, obs, obstacle1, obstacle2, relativePosition1, relativePosition2, obstacleVector) ==
  LET s == NumDiv(multiply(scale(relativePosition1, 0 - SCALE), obstacleVector),
                  absSq(obstacleVector))
  IN obstacleCollisions(self, obs, obstacle1, obstacle2, relativePosition1,
       relativePosition2, absSq(relativePosition1), absSq(relativePosition2), s,
       absSq(minus(scale(relativePosition1, 0 - SCALE), scale(obstacleVector, s))))

\* One iteration of "Create obstacle ORCA lines": orcaLines holds the lines
\* pushed so far and obstacle1 is the neighbor's segment.
obstacleOrcaLine(self, obs, obstacle1, orcaLines) ==
  IF alreadyCovered(self, minus(obstacle1.point, self.position),
                    minus(At(obs, obstacle1.next).point, self.position), orcaLines)
  THEN NoObstacleLine
  ELSE obstacleDistances(self, obs, obstacle1, At(obs, obstacle1.next),
         minus(obstacle1.point, self.position),
         minus(At(obs, obstacle1.next).point, self.position),
         minus(At(obs, obstacle1.next).point, obstacle1.point))

RECURSIVE obstacleOrcaLines(_, _, _, _)
\* "Create obstacle ORCA lines" from neighbor i on: made is the sequence of
\* what the neighbors before contributed, the lines pushed only.
obstacleOrcaLines(self, obs, i, made) ==
  IF i >= Len(self.obstaclNeighbors) THEN made
  ELSE LET one == obstacleOrcaLine(self, obs,
                    At(obs, At(self.obstaclNeighbors, i).value),
                    [k \in 1..Len(made) |-> made[k].line])
       IN obstacleOrcaLines(self, obs, i + 1,
            IF one.skip THEN made ELSE Append(made, one))

\* orcaLines and what is recorded of them: the obstacle lines pushed, then
\* the agent lines, from the sequences of [line, ...] and of [line, info].
withOrcaLines(self, obstMade, made) ==
  [self EXCEPT
     !.orcaLines = [k \in 1..Len(obstMade) |-> obstMade[k].line]
                     \o [k \in 1..Len(made) |-> made[k].line],
     !.orcaInfo = [k \in 1..Len(made) |-> made[k].info],
     !.obstInfo = [k \in 1..Len(obstMade) |->
                     [branch |-> obstMade[k].branch,
                      leftCutoff |-> obstMade[k].leftCutoff,
                      rightCutoff |-> obstMade[k].rightCutoff]]]

\* A faulty start without "this.orcaLines.length = 0": the lines of this
\* call come after those the agent held.
buildOrcaLinesKept(self, objs, obs, timeStep) ==
  [withOrcaLines(self, obstacleOrcaLines(self, obs, 0, <<>>),
                 agentOrcaLines(self, objs, timeStep))
     EXCEPT !.orcaLines =
              self.orcaLines
                \o withOrcaLines(self, obstacleOrcaLines(self, obs, 0, <<>>),
                                 agentOrcaLines(self, objs, timeStep)).orcaLines]

\* Agent.computeNewVelocity up to the call of _linearProgram2: orcaLines is
\* emptied, then the obstacle lines and the agent lines are pushed
\* (numObstLines is the number of obstacle lines).
buildOrcaLines(self, objs, obs, timeStep) ==
  withOrcaLines(self, obstacleOrcaLines(self, obs, 0, <<>>),
                agentOrcaLines(self, objs, timeStep))

\* The end of Agent.computeNewVelocity: r is [newVelocity, isOpt].
solved(self, lineFail, r) ==
  [self EXCEPT !.newVelocity = r.newVelocity, !.newIsPref = r.isOpt,
               !.lineFail = lineFail]

\* The call this._linearProgram3(orcaLines, numObstLines, lineFail, maxSpeed)
\* and what is recorded of it; r3 is its outcome.
fellBack(self, numObstLines, beginLine, r3) ==
  [solved(self, beginLine, r3)
     EXCEPT !.fallback = [numObstLines |-> numObstLines, beginLine |-> beginLine,
                          trace |-> r3.trace]]

\* if (lineFail < orcaLines.length) this._linearProgram3(...); r2 is the
\* outcome of _linearProgram2.
solveFallback(self, numObstLines, r2) ==
  IF r2.lineFail < Len(self.orcaLines)
  THEN fellBack(self, numObstLines, r2.lineFail,
                linearProgram3(self, self.orcaLines, numObstLines, r2.lineFail,
                               self.maxSpeed, r2.newVelocity, r2.isOpt))
  ELSE [solved(self, r2.lineFail,
               [newVelocity |-> r2.newVelocity, isOpt |-> r2.isOpt])
          EXCEPT !.fallback = Undefined]

\* The solve of Agent.computeNewVelocity, for an agent whose orcaLines are
\* built and whose prefVelocity is a vector.
solveVelocity(self) ==
  solveFallback(self, Len(self.obstInfo),
                linearProgram2(self, self.orcaLines, self.maxSpeed,
                               self.prefVelocity, FALSE))

\* An update with the random jitter that the code has commented out:
\*   rnd = new Vector2D(Math.random() * 0.1 - 0.05, Math.random() * 0.1 - 0.05)
\*   this.velocity = this.newVelocity.plus(rnd)
updateJittered(self, timeStep) ==
  [self EXCEPT !.velocity = plus(self.newVelocity,
                                 Vec(statics.seed * (SCALE \div 10) - SCALE \div 20,
                                     statics.seed * (SCALE \div 10) - SCALE \div 20)),
               !.velIsPref = FALSE,
               !.velIsDefault = FALSE,
               !.position = plus(self.position, scale(self.newVelocity, timeStep))]

\* A faulty update that moves the agent by the velocity it had before.
updateByOldVelocity(self, timeStep) ==
  [self EXCEPT !.velocity = self.newVelocity,
               !.velIsPref = self.newIsPref,
               !.velIsDefault = FALSE,
               !.position = plus(self.position, scale(self.velocity, timeStep))]

\* Agent.update.
\* A faulty update that commits the velocity and leaves the position to the
\* end of the tick, so that the agents of one tick see each other where they
\* were when the tick began.
updateDeferred(self, timeStep) ==
  [self EXCEPT !.velocity = self.newVelocity,
               !.velIsPref = self.newIsPref,
               !.velIsDefault = FALSE]

update(self, timeStep) ==
  [self EXCEPT !.velocity = self.newVelocity,
               !.velIsPref = self.newIsPref,
               !.velIsDefault = FALSE,
               !.position = plus(self.position, scale(self.newVelocity, timeStep))]

(***************************************************************************)
(* Bounds and inputs of the model.                                         *)
(***************************************************************************)
\* addAgent is called successfully at most MaxAgents times.
MaxAgents == 2
\* run() is called at most MaxRuns times.
MaxRuns == 2

\* Agent ids used as arguments; MaxAgents is never a registered id.
AgentIds == 0..MaxAgents

\* Ids handed to setAgentPosition and setAgentGoal: the first agent's, and
\* the id that is never registered.
MovedIds == {0, MaxAgents}

\* addAgent's argument for the agent that will get id: the agents start on
\* the x axis, alternately at x = -5 and x = 5.
StartPosition(id) == Vec((IF id % 2 = 0 THEN -5 ELSE 5) * SCALE, 0)

\* Positions handed to setAgentPosition.
NewPositions == {Vec(4 * SCALE, 0)}

\* Goals handed to setAgentGoal.
GoalPoints == {Vec(5 * SCALE, 0)}

\* Preferred velocities handed to setAgentPrefVelocity(id, ..): towards the
\* other side, at speed 3 (above maxSpeed) for the agents that start on the
\* left and at speed 1 (maxSpeed) for those that start on the right.
PrefVelocities(id) == {Vec((IF id % 2 = 0 THEN 3 ELSE -1) * SCALE, 0)}

\* Time steps handed to setTimeStep.
TimeSteps == {SCALE}

\* addObstacle is called while the list holds at most MaxSegments segments
\* afterwards.
MaxSegments == 5

\* Vertex lists handed to addObstacle: none, a single vertex, a line segment,
\* a counterclockwise triangle and the same triangle clockwise.  They lie
\* at y >= 20, out of the obstacle range of every agent of the model.
ObstacleShapes ==
  { <<>>,
    <<Vec(0, 20 * SCALE)>>,
    <<Vec(0, 20 * SCALE), Vec(4 * SCALE, 20 * SCALE)>>,
    <<Vec(0, 24 * SCALE), Vec(4 * SCALE, 24 * SCALE), Vec(0, 28 * SCALE)>>,
    <<Vec(0, 28 * SCALE), Vec(4 * SCALE, 24 * SCALE), Vec(0, 24 * SCALE)>> }

\* Arguments of setAgentDefaults: a slim agent (radius 0.5 < maxSpeed 1) and a
\* wide one (radius 2 > maxSpeed 1).
Defaults ==
  { [neighborDist |-> 15 * SCALE, maxNeighbors |-> 10, timeHorizon |-> 10 * SCALE,
     timeHorizonObst |-> 10 * SCALE, radius |-> SCALE \div 2, maxSpeed |-> SCALE,
     velocity |-> Vec(0, 0)],
    [neighborDist |-> 15 * SCALE, maxNeighbors |-> 10, timeHorizon |-> 10 * SCALE,
     timeHorizonObst |-> 10 * SCALE, radius |-> 2 * SCALE, maxSpeed |-> SCALE,
     velocity |-> Vec(0, 0)] }

(***************************************************************************)
(* Simulator state.                                                        *)
(***************************************************************************)
VARIABLES
  nextAgentId,   \* _nextAgentId
  objs,          \* the Agent objects the simulator can reach, by id
  agentMap,      \* agentMap: the keys in insertion order
  goalsMap,      \* goalsMap: id -> goal
  agents,        \* agents: the dense array (ids of the Agent objects)
  agentsDirty,   \* _agentsDirty
  kdAgents,      \* the agents of the kd-tree's agent tree
  timeStep,      \* timeStep
  time,          \* time
  defaultAgent,  \* defaultAgent, Undefined before setAgentDefaults
  pc,            \* position inside run(): "idle" between calls
  runIndex,      \* the loop variable i of run()
  lastCall,      \* the outcome of the last public call; op is "void" for
                 \* the calls that return nothing and cannot throw
  issued,        \* ids returned by addAgent so far, in order
  callLog,       \* the calls run() has made since it was entered
  numRuns,       \* run() calls so far
  obstacles,     \* obstacles: the segments, in list order
  kdObstacles,   \* the segments of the kd-tree's obstacle tree
  probe,         \* the arguments and the result of a function applied on its
                 \* own, or the position of a driver in its scenario
  twin           \* a second Simulator that is given the same calls

\* The other subsystems of the framework, each one object of its class.
VARIABLES
  world,         \* a World: its entities, components, queries and systems
  dispatcher,    \* an FWEventDispatcher: its listeners and the emits running
  hotUpdate      \* a HotUpdateQueue and the managers of its queue

rest == <<world, dispatcher, hotUpdate>>

vars == <<nextAgentId, objs, agentMap, goalsMap, agents, agentsDirty, kdAgents,
          timeStep, time, defaultAgent, pc, runIndex, lastCall, issued, callLog,
          numRuns, obstacles, kdObstacles, probe, twin, statics, rest>>

\* What is not part of the simulator.
aux == <<probe, twin, statics, rest>>

\* Everything the Simulator owns.
simState == <<nextAgentId, objs, agentMap, goalsMap, agents, agentsDirty,
              kdAgents, timeStep, time, defaultAgent, obstacles, kdObstacles>>

Range(seq) == {seq[k] : k \in 1..Len(seq)}

Call(op) == [op |-> op, ret |-> -1, flag |-> FALSE, thrown |-> FALSE]

\* No function is being applied on its own.
NoProbe == [op |-> "none"]

\* A new Simulator.
InitSimulator ==
  /\ nextAgentId = 0
  /\ objs = <<>>
  /\ agentMap = <<>>
  /\ goalsMap = <<>>
  /\ agents = <<>>
  /\ agentsDirty = FALSE
  /\ kdAgents = <<>>
  /\ timeStep = SCALE \div 4
  /\ time = 0
  /\ defaultAgent = Undefined
  /\ pc = "idle"
  /\ runIndex = 0
  /\ lastCall = Call("new")
  /\ issued = <<>>
  /\ callLog = <<>>
  /\ numRuns = 0
  /\ obstacles = <<>>
  /\ kdObstacles = <<>>

\* There is no second Simulator.
NoTwin == [turn |-> "none"]

\* The pool is empty.
InitStatics == [poolSize |-> 0, seed |-> 0]

(***************************************************************************)
(* The state of a new World (assets/ecs/core), FWEventDispatcher           *)
(* (assets/events) and HotUpdateQueue (assets/hotupdate).                  *)
(***************************************************************************)
MaxEntities == 2

EntityIds == 1..MaxEntities

ComponentTypes == {"Position", "Velocity"}

\* A QueryConfig: the component types of all, any and none.
QueryConfig(all, any, none) == [all |-> all, any |-> any, none |-> none]

\* The queries of the World, by key.
Queries ==
  << QueryConfig({"Position"}, {}, {}),
     QueryConfig({}, {"Position", "Velocity"}, {}),
     QueryConfig({}, {}, {"Velocity"}) >>

\* new Query(): nothing cached, the cache is dirty.
NewQuery == [cachedEntities |-> {}, cacheDirty |-> TRUE]

\* No query has been asked.
NoResult == [op |-> "none"]

\* No update is running.
NoUpdate == [pc |-> "idle", index |-> 0, calls |-> <<>>, touched |-> FALSE]

\* new World(): no entity, no component, no system; entities is the key set
\* of EntityManager.entities and active the entities whose _active is set;
\* entityComponentBits is the Map of ComponentManager, an entity without
\* an entry has no key; the queries are created with the World.
InitWorld ==
  [nextEntityId |-> 1,
   recycledIds |-> <<>>,
   entities |-> {},
   active |-> {},
   entityComponentBits |-> <<>>,
   queries |-> [q \in DOMAIN Queries |-> NewQuery],
   result |-> NoResult,
   systems |-> <<>>,
   nextStamp |-> 1,
   update |-> NoUpdate]

\* new FWEventDispatcher(): no listener and no emit running; fired holds
\* the once listeners invoked so far, refired those invoked again.
InitDispatcher ==
  [listeners |-> <<>>, nextId |-> 1, frames |-> <<>>, fired |-> {},
   refired |-> {}]

\* new HotUpdateQueue(): startUpdate has not been called, the fields are not
\* set; updates lists the entries doHotUpdate has been called for, resolved
\* counts the calls of the promise's resolve.
InitHotUpdate ==
  [queue |-> <<>>, flag |-> <<>>, initUpdateCount |-> Undefined,
   runIndex |-> Undefined, updates |-> <<>>, resolved |-> 0,
   endUpdateCallback |-> FALSE]

\* A new World, a new FWEventDispatcher and a new HotUpdateQueue.
InitRest ==
  /\ world = InitWorld
  /\ dispatcher = InitDispatcher
  /\ hotUpdate = InitHotUpdate

Init ==
  /\ InitSimulator
  /\ probe = NoProbe
  /\ twin = NoTwin
  /\ statics = InitStatics
  /\ InitRest

\* Map.get(id) is defined.
Has(map, id) == id \in DOMAIN map
\* Map.set(id, value) on a map kept as a function.
MapSet(map, id, value) ==
  [k \in DOMAIN map \cup {id} |-> IF k = id THEN value ELSE map[k]]
\* Map.delete(id).
MapDelete(map, id) == [k \in DOMAIN map \ {id} |-> map[k]]
\* agentMap.set(id, agent): a new key goes last, an existing key keeps its place.
KeysSet(keys, id) == IF id \in Range(keys) THEN keys ELSE Append(keys, id)
\* A faulty agentMap.delete(id) that deletes nothing.
KeysDeleteNothing(keys, id) == keys
\* agentMap.delete(id).
KeysDelete(keys, id) == SelectSeq(keys, LAMBDA k : k # id)

\* The Agent objects still referenced by the map, the array or the tree.
Reachable(os, map, arr, tree) ==
  [k \in (Range(map) \cup Range(arr) \cup Range(tree)) \cap DOMAIN os |-> os[k]]

(***************************************************************************)
(* Simulator.setAgentDefaults                                              *)
(***************************************************************************)
\* defaultAgent.velocity.set(velocityX, velocityY): an agent whose velocity is
\* that Vector2D object changes with it.
setDefaultVelocity(agent, v) ==
  IF agent.velIsDefault THEN [agent EXCEPT !.velocity = v] ELSE agent

SetAgentDefaults(d) ==
  /\ UNCHANGED <<obstacles, kdObstacles>>
  /\ pc = "idle"
  /\ defaultAgent' = d
  /\ objs' = [id \in DOMAIN objs |-> setDefaultVelocity(objs[id], d.velocity)]
  /\ lastCall' = Call("void")
  /\ UNCHANGED <<nextAgentId, agentMap, goalsMap, agents, agentsDirty,
                 kdAgents, timeStep, time, pc, runIndex, issued, callLog, numRuns>>

(***************************************************************************)
(* Simulator.addAgent                                                      *)
(***************************************************************************)
\* A faulty addAgent that takes the template's velocity object, not a clone.
NewAgentSharedVelocity(id, position, d) ==
  [id |-> id, position |-> position, velocity |-> d.velocity, velIsPref |-> FALSE,
   velIsDefault |-> TRUE,
   prefVelocity |-> Undefined, newVelocity |-> Undefined, newIsPref |-> FALSE,
   maxNeighbors |-> d.maxNeighbors, maxSpeed |-> d.maxSpeed,
   neighborDist |-> d.neighborDist, radius |-> d.radius,
   timeHorizon |-> d.timeHorizon, timeHorizonObst |-> d.timeHorizonObst,
   agentNeighbors |-> <<>>, obstaclNeighbors |-> <<>>, orcaLines |-> <<>>,
   orcaInfo |-> <<>>, obstInfo |-> <<>>, lineFail |-> 0, fallback |-> Undefined]

\* new Agent() with the fields addAgent assigns; the velocity is a clone of
\* the template's.
NewAgent(id, position, d) ==
  [id |-> id, position |-> position, velocity |-> d.velocity, velIsPref |-> FALSE,
   velIsDefault |-> FALSE,
   prefVelocity |-> Undefined, newVelocity |-> Undefined, newIsPref |-> FALSE,
   maxNeighbors |-> d.maxNeighbors, maxSpeed |-> d.maxSpeed,
   neighborDist |-> d.neighborDist, radius |-> d.radius,
   timeHorizon |-> d.timeHorizon, timeHorizonObst |-> d.timeHorizonObst,
   agentNeighbors |-> <<>>, obstaclNeighbors |-> <<>>, orcaLines |-> <<>>,
   orcaInfo |-> <<>>, obstInfo |-> <<>>, lineFail |-> 0, fallback |-> Undefined]

\* A faulty addAgent that marks the array dirty before it throws.
AddAgentThrowDirty ==
  /\ UNCHANGED <<obstacles, kdObstacles>>
  /\ agentsDirty' = TRUE
  /\ lastCall' = [Call("addAgent") EXCEPT !.thrown = TRUE]
  /\ UNCHANGED <<nextAgentId, objs, agentMap, goalsMap, agents, kdAgents,
                 timeStep, time, defaultAgent, pc, runIndex, issued, callLog,
                 numRuns>>

\* throw new Error("no default agent"): nothing was assigned before it.
AddAgentThrow ==
  /\ UNCHANGED <<obstacles, kdObstacles>>
  /\ lastCall' = [Call("addAgent") EXCEPT !.thrown = TRUE]
  /\ UNCHANGED <<nextAgentId, objs, agentMap, goalsMap, agents, agentsDirty,
                 kdAgents, timeStep, time, defaultAgent, pc, runIndex, issued,
                 callLog, numRuns>>

\* A faulty allocation that gives the registry's size as the id.
AllocateIdRecycled(next) == [id |-> Len(agentMap), next |-> next + 1]

\* agent.id = this._nextAgentId++ : the id given and the counter afterwards.
AllocateId(next) == [id |-> next, next |-> next + 1]

AddAgent(position) ==
  /\ UNCHANGED <<obstacles, kdObstacles>>
  /\ pc = "idle"
  /\ IF defaultAgent = Undefined
     THEN AddAgentThrow
     ELSE LET a == AllocateId(nextAgentId)
          IN /\ nextAgentId < MaxAgents
             /\ nextAgentId' = a.next
             /\ objs' = MapSet(objs, a.id, NewAgent(a.id, position, defaultAgent))
             /\ agentMap' = KeysSet(agentMap, a.id)
             /\ goalsMap' = MapSet(goalsMap, a.id, position)
             /\ agentsDirty' = TRUE
             /\ lastCall' = [Call("addAgent") EXCEPT !.ret = a.id]
             /\ issued' = Append(issued, a.id)
             /\ UNCHANGED <<agents, kdAgents, timeStep, time, defaultAgent, pc,
                            runIndex, callLog, numRuns>>

(***************************************************************************)
(* Simulator.removeAgent                                                   *)
(***************************************************************************)
RemoveAgent(id) ==
  /\ UNCHANGED <<obstacles, kdObstacles>>
  /\ pc = "idle"
  /\ IF id \notin Range(agentMap)
     THEN /\ lastCall' = Call("removeAgent")
          /\ UNCHANGED <<nextAgentId, objs, agentMap, goalsMap, agents,
                         agentsDirty, kdAgents, timeStep, time, defaultAgent>>
     ELSE /\ agentMap' = KeysDelete(agentMap, id)
          /\ goalsMap' = MapDelete(goalsMap, id)
          /\ agentsDirty' = TRUE
          /\ objs' = Reachable(objs, agentMap', agents, kdAgents)
          /\ lastCall' = [Call("removeAgent") EXCEPT !.flag = TRUE]
          /\ UNCHANGED <<nextAgentId, agents, kdAgents, timeStep, time, defaultAgent>>
  /\ UNCHANGED <<pc, runIndex, issued, callLog, numRuns>>

(***************************************************************************)
(* Simulator.setAgentPrefVelocity, setAgentPosition, setAgentGoal,         *)
(* setTimeStep, markAgentsDirty                                            *)
(***************************************************************************)
\* agent.prefVelocity.set(vx, vy): a Vector2D that is also the agent's
\* velocity or _newVelocity changes with it.
setPrefVelocity(agent, v) ==
  [agent EXCEPT !.prefVelocity = v,
                !.velocity = IF agent.velIsPref THEN v ELSE @,
                !.newVelocity = IF agent.newIsPref THEN v ELSE @]

SetAgentPrefVelocity(id, v) ==
  /\ UNCHANGED <<obstacles, kdObstacles>>
  /\ pc = "idle"
  /\ objs' = IF id \in Range(agentMap)
             THEN [objs EXCEPT ![id] = setPrefVelocity(objs[id], v)]
             ELSE objs
  /\ lastCall' = Call("void")
  /\ UNCHANGED <<nextAgentId, agentMap, goalsMap, agents, agentsDirty, kdAgents,
                 timeStep, time, defaultAgent, pc, runIndex, issued, callLog,
                 numRuns>>

SetAgentPosition(id, p) ==
  /\ UNCHANGED <<obstacles, kdObstacles>>
  /\ pc = "idle"
  /\ objs' = IF id \in Range(agentMap)
             THEN [objs EXCEPT ![id].position = p]
             ELSE objs
  /\ lastCall' = Call("void")
  /\ UNCHANGED <<nextAgentId, agentMap, goalsMap, agents, agentsDirty, kdAgents,
                 timeStep, time, defaultAgent, pc, runIndex, issued, callLog,
                 numRuns>>

\* goalsMap after setAgentGoal(id, x, y): the goal is looked up in goalsMap,
\* not in agentMap, and created when missing.
setGoal(goals, id, p) == MapSet(goals, id, p)

SetAgentGoal(id, p) ==
  /\ UNCHANGED <<obstacles, kdObstacles>>
  /\ pc = "idle"
  /\ goalsMap' = setGoal(goalsMap, id, p)
  /\ lastCall' = Call("void")
  /\ UNCHANGED <<nextAgentId, objs, agentMap, agents, agentsDirty, kdAgents,
                 timeStep, time, defaultAgent, pc, runIndex, issued, callLog,
                 numRuns>>

SetTimeStep(dt) ==
  /\ UNCHANGED <<obstacles, kdObstacles>>
  /\ pc = "idle"
  /\ timeStep' = dt
  /\ lastCall' = Call("void")
  /\ UNCHANGED <<nextAgentId, objs, agentMap, goalsMap, agents, agentsDirty,
                 kdAgents, time, defaultAgent, pc, runIndex, issued, callLog,
                 numRuns>>

MarkAgentsDirty ==
  /\ UNCHANGED <<obstacles, kdObstacles>>
  /\ pc = "idle"
  /\ agentsDirty' = TRUE
  /\ lastCall' = Call("void")
  /\ UNCHANGED <<nextAgentId, objs, agentMap, goalsMap, agents, kdAgents,
                 timeStep, time, defaultAgent, pc, runIndex, issued, callLog,
                 numRuns>>

(***************************************************************************)
(* Simulator accessors                                                     *)
(***************************************************************************)
getAgentPosition(id) ==
  IF id \in Range(agentMap) THEN objs[id].position ELSE Undefined
getAgentPrefVelocity(id) ==
  IF id \in Range(agentMap) THEN objs[id].prefVelocity ELSE Undefined
getAgentVelocity(id) ==
  IF id \in Range(agentMap) THEN objs[id].velocity ELSE Undefined
getAgentRadius(id) ==
  IF id \in Range(agentMap) THEN [value |-> objs[id].radius] ELSE Undefined
getAgentOrcaLines(id) ==
  IF id \in Range(agentMap) THEN [value |-> objs[id].orcaLines] ELSE Undefined
getNumAgents == IF agentsDirty THEN Len(agentMap) ELSE Len(agents)
getGlobalTime == time

\* Simulator.reachedGoal: the loop runs over the dense array.
reachedGoal ==
  \A k \in 1..Len(agents) :
     LET agent == objs[agents[k]]
     IN Has(goalsMap, agent.id) =>
          ~Gt(absSq(minus(goalsMap[agent.id], agent.position)), RVO_EPSILON)

(***************************************************************************)
(* Simulator.run, one action per call it makes.                            *)
(***************************************************************************)
\* A faulty _refreshAgents that never rebuilds the dense array.
refreshAgentsNever(arr, map, dirty) == arr

\* _refreshAgents: the dense array afterwards.
refreshAgents(arr, map, dirty) == IF dirty THEN map ELSE arr

\* KdTree.buildAgentTree: the tree is rebuilt over the simulator's agents.
buildAgentTree(arr) == arr

\* Where run() goes after the agent at index i (of n) was updated.
AfterUpdate(i, n) == IF i + 1 < n THEN "computeNeighbors" ELSE "advance"

\* this.time += this.timeStep
advanceTime(t, dt) == NumAdd(t, dt)

\* run() is entered: _refreshAgents and buildAgentTree.
RunEnter ==
  /\ UNCHANGED <<obstacles, kdObstacles>>
  /\ pc = "idle"
  /\ agents' = refreshAgents(agents, agentMap, agentsDirty)
  /\ agentsDirty' = FALSE
  /\ kdAgents' = buildAgentTree(agents')
  /\ objs' = Reachable(objs, agentMap, agents', kdAgents')
  /\ runIndex' = 0
  /\ pc' = IF 0 < Len(agents') THEN "computeNeighbors" ELSE "advance"
  /\ callLog' = (IF agentsDirty THEN <<<<"refreshAgents", -1>>>> ELSE <<>>)
                  \o <<<<"buildAgentTree", -1>>>>
  /\ numRuns' = numRuns + 1
  /\ lastCall' = Call("run")
  /\ UNCHANGED <<nextAgentId, agentMap, goalsMap, timeStep, time, defaultAgent,
                 issued>>

RunBegin ==
  /\ numRuns < MaxRuns
  /\ RunEnter

RunComputeNeighbors ==
  /\ UNCHANGED <<obstacles, kdObstacles>>
  /\ pc = "computeNeighbors"
  /\ LET id == At(agents, runIndex)
     IN /\ objs' = [objs EXCEPT ![id] = computeNeighbors(objs[id], kdAgents, objs,
                                                         kdObstacles, obstacles)]
        /\ callLog' = Append(callLog, <<"computeNeighbors", id>>)
  /\ pc' = "computeNewVelocity"
  /\ UNCHANGED <<nextAgentId, agentMap, goalsMap, agents, agentsDirty, kdAgents,
                 timeStep, time, defaultAgent, runIndex, lastCall, issued, numRuns>>

\* computeNewVelocity throws a TypeError at the read of prefVelocity when it
\* is undefined: run() is left there, the agents updated so far stay updated
\* (the locals of run(), runIndex and callLog, are gone).
RunComputeNewVelocity ==
  /\ UNCHANGED <<obstacles, kdObstacles>>
  /\ pc = "computeNewVelocity"
  /\ LET id == At(agents, runIndex)
         built == buildOrcaLines(objs[id], objs, obstacles, timeStep)
     IN IF built.prefVelocity = Undefined
        THEN /\ objs' = [objs EXCEPT ![id] = built]
             /\ pc' = "idle"
             /\ lastCall' = [lastCall EXCEPT !.thrown = TRUE]
             /\ callLog' = <<>>
             /\ runIndex' = 0
        ELSE /\ objs' = [objs EXCEPT ![id] = solveVelocity(built)]
             /\ pc' = "update"
             /\ callLog' = Append(callLog, <<"computeNewVelocity", id>>)
             /\ UNCHANGED <<lastCall, runIndex>>
  /\ UNCHANGED <<nextAgentId, agentMap, goalsMap, agents, agentsDirty, kdAgents,
                 timeStep, time, defaultAgent, issued, numRuns>>

RunUpdate ==
  /\ UNCHANGED <<obstacles, kdObstacles>>
  /\ pc = "update"
  /\ LET id == At(agents, runIndex)
     IN /\ objs' = [objs EXCEPT ![id] = update(objs[id], timeStep)]
        /\ callLog' = Append(callLog, <<"update", id>>)
  /\ runIndex' = runIndex + 1
  /\ pc' = AfterUpdate(runIndex, Len(agents))
  /\ UNCHANGED <<nextAgentId, agentMap, goalsMap, agents, agentsDirty, kdAgents,
                 timeStep, time, defaultAgent, lastCall, issued, numRuns>>

RunEnd ==
  /\ UNCHANGED <<obstacles, kdObstacles>>
  /\ pc = "advance"
  /\ time' = advanceTime(time, timeStep)
  /\ pc' = "idle"
  /\ callLog' = <<>>
  /\ runIndex' = 0
  /\ UNCHANGED <<nextAgentId, objs, agentMap, goalsMap, agents, agentsDirty,
                 kdAgents, timeStep, defaultAgent, lastCall, issued, numRuns>>

(***************************************************************************)
(* Simulator.addObstacle, processObstacles                                 *)
(***************************************************************************)
AddObstacle(vertices) ==
  /\ pc = "idle"
  /\ Len(obstacles) + Len(vertices) <= MaxSegments
  /\ LET added == addObstacle(obstacles, vertices)
     IN /\ obstacles' = added.obstacles
        /\ lastCall' = [Call("addObstacle") EXCEPT !.ret = added.ret]
  /\ UNCHANGED <<nextAgentId, objs, agentMap, goalsMap, agents, agentsDirty,
                 kdAgents, timeStep, time, defaultAgent, pc, runIndex, issued,
                 callLog, numRuns, kdObstacles>>

\* processObstacles is to be called once, after the obstacles were added.
ProcessObstacles ==
  /\ pc = "idle"
  /\ kdObstacles = <<>>
  /\ kdObstacles' = buildObstacleTree(obstacles)
  /\ lastCall' = Call("void")
  /\ UNCHANGED <<nextAgentId, objs, agentMap, goalsMap, agents, agentsDirty,
                 kdAgents, timeStep, time, defaultAgent, pc, runIndex, issued,
                 callLog, numRuns, obstacles>>

Next ==
  \/ \E d \in Defaults : SetAgentDefaults(d) /\ UNCHANGED aux
  \/ AddAgent(StartPosition(nextAgentId)) /\ UNCHANGED aux
  \/ \E id \in AgentIds : RemoveAgent(id) /\ UNCHANGED aux
  \/ \E id \in AgentIds : \E v \in PrefVelocities(id) :
        SetAgentPrefVelocity(id, v) /\ UNCHANGED aux
  \/ \E id \in MovedIds, p \in NewPositions : SetAgentPosition(id, p) /\ UNCHANGED aux
  \/ \E id \in MovedIds, p \in GoalPoints : SetAgentGoal(id, p) /\ UNCHANGED aux
  \/ \E dt \in TimeSteps : SetTimeStep(dt) /\ UNCHANGED aux
  \/ MarkAgentsDirty /\ UNCHANGED aux
  \/ RunBegin /\ UNCHANGED aux
  \/ RunComputeNeighbors /\ UNCHANGED aux
  \/ RunComputeNewVelocity /\ UNCHANGED aux
  \/ RunUpdate /\ UNCHANGED aux
  \/ RunEnd /\ UNCHANGED aux

Spec == Init /\ [][Next]_vars

(***************************************************************************)
(* The simulator with obstacles: polygons are registered and the obstacle  *)
(* tree is built while agents come, go and are stepped.                    *)
(***************************************************************************)
NextObstacles ==
  \/ \E vertices \in ObstacleShapes : AddObstacle(vertices) /\ UNCHANGED aux
  \/ ProcessObstacles /\ UNCHANGED aux
  \/ \E d \in Defaults : SetAgentDefaults(d) /\ UNCHANGED aux
  \/ AddAgent(StartPosition(nextAgentId)) /\ UNCHANGED aux
  \/ RemoveAgent(0) /\ UNCHANGED aux
  \/ \E id \in AgentIds \ {MaxAgents} : \E v \in PrefVelocities(id) :
        SetAgentPrefVelocity(id, v) /\ UNCHANGED aux
  \/ RunBegin /\ UNCHANGED aux
  \/ RunComputeNeighbors /\ UNCHANGED aux
  \/ RunComputeNewVelocity /\ UNCHANGED aux
  \/ RunUpdate /\ UNCHANGED aux
  \/ RunEnd /\ UNCHANGED aux

SpecObstacles == Init /\ [][NextObstacles]_vars

(***************************************************************************)
(* Agent.computeNeighbors on its own: the spatial index offers an          *)
(* arbitrary sequence of candidates, repetitions and the querying agent    *)
(* included.                                                               *)
(***************************************************************************)
\* At most MaxOffers candidates of each kind are offered in one query.
MaxOffers == 3

\* The variables of the simulator and of its observation.
simVars == <<nextAgentId, objs, agentMap, goalsMap, agents, agentsDirty, kdAgents,
             timeStep, time, defaultAgent, pc, runIndex, lastCall, issued, callLog,
             numRuns, obstacles, kdObstacles>>

\* Sequences over S of length at most n.
SeqUpTo(S, n) == UNION {[1..k -> S] : k \in 0..n}

\* The agents of the query: agent 0 asks; 1 and 3 are equally near, 2 is
\* farther, 4 is beyond neighborDist.
ProbePosition(id) ==
  CASE id = 0 -> Vec(0, 0)
    [] id = 1 -> Vec(SCALE, 0)
    [] id = 2 -> Vec(2 * SCALE, 0)
    [] id = 3 -> Vec(0 - SCALE, 0)
    [] OTHER -> Vec(20 * SCALE, 0)

ProbeDefaults(maxNeighbors) ==
  [neighborDist |-> 15 * SCALE, maxNeighbors |-> maxNeighbors,
   timeHorizon |-> 10 * SCALE, timeHorizonObst |-> 10 * SCALE,
   radius |-> SCALE \div 2, maxSpeed |-> SCALE, velocity |-> Vec(0, 0)]

ProbeAgents(maxNeighbors) ==
  [id \in 0..4 |-> NewAgent(id, ProbePosition(id), ProbeDefaults(maxNeighbors))]

\* The obstacles of the query: a far line segment (segments 0 and 1, beyond
\* the obstacle range), one at distance 2 (segments 2 and 3) and one at
\* distance 1 (segments 4 and 5).
ProbeObstacles ==
  LET far == addObstacle(<<>>, <<Vec(0, 20 * SCALE), Vec(4 * SCALE, 20 * SCALE)>>).obstacles
      mid == addObstacle(far, <<Vec(2 * SCALE, 0), Vec(2 * SCALE, 2 * SCALE)>>).obstacles
  IN addObstacle(mid, <<Vec(SCALE, 0), Vec(SCALE, 2 * SCALE)>>).obstacles

NeighborProbes ==
  [op : {"computeNeighbors"}, done : {FALSE}, maxNeighbors : 0..2,
   agentOffers : SeqUpTo(0..4, MaxOffers),
   obstacleOffers : SeqUpTo({0, 2, 3, 4}, MaxOffers),
   result : {Undefined}]

InitNeighbors ==
  /\ InitSimulator
  /\ twin = NoTwin
  /\ statics = InitStatics
  /\ InitRest
  /\ probe \in NeighborProbes

ProbeComputeNeighbors ==
  /\ probe.op = "computeNeighbors"
  /\ ~probe.done
  /\ probe' = [probe EXCEPT
                 !.done = TRUE,
                 !.result = computeNeighbors(ProbeAgents(probe.maxNeighbors)[0],
                                             probe.agentOffers,
                                             ProbeAgents(probe.maxNeighbors),
                                             probe.obstacleOffers, ProbeObstacles)]
  /\ UNCHANGED <<simVars, twin, statics, rest>>

NextNeighbors == ProbeComputeNeighbors

SpecNeighbors == InitNeighbors /\ [][NextNeighbors]_vars

(***************************************************************************)
(* Agent.computeNeighbors and computeNewVelocity next to obstacles: an     *)
(* agent of radius 1/2 and maxSpeed 1 that looks 2 time units ahead for    *)
(* obstacles, at a few positions with a few velocities, beside a wall, a   *)
(* counterclockwise square or a clockwise triangle, with two other agents  *)
(* (one of them overlapping the agent when it stands at the origin).       *)
(***************************************************************************)
\* Vertex lists handed to addObstacle before processObstacles.
OrcaShapes ==
  { <<Vec(2 * SCALE, 0 - 2 * SCALE), Vec(2 * SCALE, 2 * SCALE)>>,
    <<Vec(SCALE, 0 - SCALE), Vec(3 * SCALE, 0 - SCALE), Vec(3 * SCALE, SCALE),
      Vec(SCALE, SCALE)>>,
    <<Vec(SCALE, SCALE), Vec(3 * SCALE, 0), Vec(SCALE, 0 - SCALE)>> }

OrcaPositions ==
  {Vec(0, 0), Vec(0, 2 * SCALE), Vec(3 * (SCALE \div 5), 0),
   Vec(0 - SCALE, 3 * (SCALE \div 2)), Vec(2 * SCALE, 3 * SCALE),
   Vec(7 * (SCALE \div 10), 0 - 13 * (SCALE \div 10))}

OrcaVelocities == {Vec(x * SCALE, y * SCALE) : x, y \in -1..1}

\* Lines a former computeNewVelocity may have left in orcaLines.
StaleLines == {<<>>, <<Line(Vec(0, 0), Vec(SCALE, 0))>>}

OrcaProbes ==
  [op : {"orca"}, done : {FALSE}, shape : OrcaShapes, position : OrcaPositions,
   velocity : OrcaVelocities, prefVelocity : {Vec(SCALE, 0), Vec(0, 0 - SCALE)},
   maxNeighbors : {0, 2}, stale : StaleLines, result : {Undefined}]

InitOrca ==
  /\ InitSimulator
  /\ twin = NoTwin
  /\ statics = InitStatics
  /\ InitRest
  /\ probe \in OrcaProbes

\* The agents of the probe: agent 0 asks; agent 1 stands at (-0.8, 0) and
\* agent 2 at (0, 3.5).
OrcaAgents(p) ==
  [ProbeAgents(p.maxNeighbors) EXCEPT
     ![0].position = p.position, ![0].velocity = p.velocity,
     ![0].prefVelocity = p.prefVelocity, ![0].timeHorizonObst = 2 * SCALE,
     ![0].orcaLines = p.stale,
     ![1].position = Vec(0 - 4 * (SCALE \div 5), 0),
     ![2].position = Vec(0, 7 * (SCALE \div 2))]

OrcaObstacles(p) == addObstacle(<<>>, p.shape).obstacles

\* computeNeighbors, then computeNewVelocity.
orcaNewVelocity(self, os, obs, dt) ==
  solveVelocity(
    buildOrcaLines(
      computeNeighbors(self, <<0, 1, 2>>, os, buildObstacleTree(obs), obs),
      os, obs, dt))

ProbeOrca ==
  /\ probe.op = "orca"
  /\ ~probe.done
  /\ probe' = [probe EXCEPT
                 !.done = TRUE,
                 !.result = orcaNewVelocity(OrcaAgents(probe)[0], OrcaAgents(probe),
                                            OrcaObstacles(probe), timeStep)]
  /\ UNCHANGED <<simVars, twin, statics, rest>>

NextOrca == ProbeOrca

SpecOrca == InitOrca /\ [][NextOrca]_vars

(***************************************************************************)
(* Agent.computeNeighbors and computeNewVelocity for an agent that is      *)
(* offered no candidate in range: any preferred velocity of a grid, any    *)
(* maxSpeed of a few.                                                      *)
(***************************************************************************)
\* The preferred velocities have coordinates of at most MaxPref half units.
MaxPref == 4

PrefGrid ==
  {Vec(x * (SCALE \div 2), y * (SCALE \div 2)) : x, y \in (0 - MaxPref)..MaxPref}

SoloProbes ==
  [op : {"computeNewVelocity"}, done : {FALSE},
   maxSpeed : {0, SCALE \div 2, SCALE, 3 * (SCALE \div 2)},
   prefVelocity : PrefGrid,
   agentOffers : {<<>>, <<4, 0>>},
   result : {Undefined}]

InitSolo ==
  /\ InitSimulator
  /\ twin = NoTwin
  /\ statics = InitStatics
  /\ InitRest
  /\ probe \in SoloProbes

\* The querying agent of the probe.
SoloAgent(p) ==
  [ProbeAgents(10)[0] EXCEPT !.maxSpeed = p.maxSpeed, !.prefVelocity = p.prefVelocity]

\* computeNeighbors, then computeNewVelocity.
soloNewVelocity(self, offers, os, dt) ==
  solveVelocity(buildOrcaLines(computeNeighbors(self, offers, os, <<>>, <<>>),
                               os, <<>>, dt))

ProbeComputeNewVelocity ==
  /\ probe.op = "computeNewVelocity"
  /\ ~probe.done
  /\ probe' = [probe EXCEPT
                 !.done = TRUE,
                 !.result = soloNewVelocity(SoloAgent(probe), probe.agentOffers,
                                            ProbeAgents(10), timeStep)]
  /\ UNCHANGED <<simVars, twin, statics, rest>>

NextSolo == ProbeComputeNewVelocity

SpecSolo == InitSolo /\ [][NextSolo]_vars

(***************************************************************************)
(* Agent._linearProgram2 on its own: up to MaxLines lines taken from a few *)
(* points and directions (one of them not a number), a few optimization    *)
(* velocities, a disc of radius 1 or 1/4 (the agent's own radius is 1/2).  *)
(***************************************************************************)
MaxLines == 2

SolvePoints ==
  {Vec(0, 0), Vec(SCALE \div 2, 0), Vec(0, 0 - (SCALE \div 2)), Vec(2 * SCALE, 0)}

SolveDirections ==
  {Vec(SCALE, 0), Vec(0 - SCALE, 0), Vec(0, SCALE), Vec(0, 0 - SCALE),
   Vec(3 * (SCALE \div 5), 4 * (SCALE \div 5)), Vec(NaN, NaN)}

SolveLines == {Line(point, direction) : point \in SolvePoints, direction \in SolveDirections}

\* Closest-point optimization towards a grid point, and direction
\* optimization along an axis.
SolveTargets ==
  {[optVelocity |-> Vec(x * SCALE, y * SCALE), directionOpt |-> FALSE] : x, y \in -1..1}
    \cup {[optVelocity |-> v, directionOpt |-> TRUE] :
            v \in {Vec(SCALE, 0), Vec(0, SCALE), Vec(0 - SCALE, 0), Vec(0, 0 - SCALE)}}

SolveProbes ==
  [op : {"linearProgram2"}, done : {FALSE}, lines : SeqUpTo(SolveLines, MaxLines),
   radius : {SCALE \div 4, SCALE}, target : SolveTargets, result : {Undefined}]

InitSolve ==
  /\ InitSimulator
  /\ twin = NoTwin
  /\ statics = InitStatics
  /\ InitRest
  /\ probe \in SolveProbes

ProbeLinearProgram2 ==
  /\ probe.op = "linearProgram2"
  /\ ~probe.done
  /\ probe' = [probe EXCEPT
                 !.done = TRUE,
                 !.result = linearProgram2(ProbeAgents(10)[0], probe.lines, probe.radius,
                                           probe.target.optVelocity,
                                           probe.target.directionOpt)]
  /\ UNCHANGED <<simVars, twin, statics, rest>>

NextSolve == ProbeLinearProgram2

SpecSolve == InitSolve /\ [][NextSolve]_vars

(***************************************************************************)
(* The simulator with two templates that differ in every parameter.        *)
(***************************************************************************)
Templates ==
  { [neighborDist |-> 15 * SCALE, maxNeighbors |-> 10, timeHorizon |-> 10 * SCALE,
     timeHorizonObst |-> 10 * SCALE, radius |-> SCALE \div 2, maxSpeed |-> SCALE,
     velocity |-> Vec(0, 0)],
    [neighborDist |-> 12 * SCALE, maxNeighbors |-> 5, timeHorizon |-> 8 * SCALE,
     timeHorizonObst |-> 6 * SCALE, radius |-> SCALE \div 4, maxSpeed |-> 2 * SCALE,
     velocity |-> Vec(SCALE \div 2, SCALE \div 4)] }

NextDefaults ==
  \/ \E d \in Templates : SetAgentDefaults(d) /\ UNCHANGED aux
  \/ AddAgent(StartPosition(nextAgentId)) /\ UNCHANGED aux
  \/ RemoveAgent(0) /\ UNCHANGED aux
  \/ \E id \in AgentIds \ {MaxAgents} : \E v \in PrefVelocities(id) :
        SetAgentPrefVelocity(id, v) /\ UNCHANGED aux
  \/ RunBegin /\ UNCHANGED aux
  \/ RunComputeNeighbors /\ UNCHANGED aux
  \/ RunComputeNewVelocity /\ UNCHANGED aux
  \/ RunUpdate /\ UNCHANGED aux
  \/ RunEnd /\ UNCHANGED aux

SpecDefaults == Init /\ [][NextDefaults]_vars

(***************************************************************************)
(* Two simulators that are given the same calls.  The variables of the     *)
(* simulator hold the instance that is being called, twin.state the other  *)
(* one; each call is made on the first instance, then the instances change *)
(* places and the same call is made on the second.  Between calls (the     *)
(* program has one thread) other code uses the Vector2D pool and           *)
(* Math.random.                                                            *)
(*   twin.turn:  the instance the variables hold, "first" or "second"      *)
(*   twin.stage: "ready" for a new call, "called" from a call's start to   *)
(*               the change of places after it, "replay" before the second *)
(*               instance is given the call                                *)
(*   twin.call:  the call being made                                       *)
(***************************************************************************)
\* Vector2D.MAX_POOL_SIZE is 1000; the model's pool holds at most MaxPool.
MaxPool == 1

NoCall == [op |-> "none", args |-> <<>>]
TwinCall(op, args) == [op |-> op, args |-> args]

InitTwin ==
  /\ InitSimulator
  /\ probe = NoProbe
  /\ statics = InitStatics
  /\ InitRest
  /\ twin = [turn |-> "first", stage |-> "ready", call |-> NoCall, state |-> simVars]

\* The instance whose turn it is starts call: any call for the first
\* instance, the first one's call for the second.
TwinIssue(call) ==
  /\ twin.stage = (IF twin.turn = "first" THEN "ready" ELSE "replay")
  /\ twin.turn = "second" => twin.call = call
  /\ twin' = [twin EXCEPT !.stage = "called", !.call = call]
  /\ UNCHANGED <<probe, statics, rest>>

\* A step inside run().
TwinInside == UNCHANGED <<probe, twin, statics, rest>>

\* The call has returned or thrown: the instances change places.
TwinSwap ==
  /\ pc = "idle"
  /\ twin.stage = "called"
  /\ nextAgentId' = twin.state[1]
  /\ objs' = twin.state[2]
  /\ agentMap' = twin.state[3]
  /\ goalsMap' = twin.state[4]
  /\ agents' = twin.state[5]
  /\ agentsDirty' = twin.state[6]
  /\ kdAgents' = twin.state[7]
  /\ timeStep' = twin.state[8]
  /\ time' = twin.state[9]
  /\ defaultAgent' = twin.state[10]
  /\ pc' = twin.state[11]
  /\ runIndex' = twin.state[12]
  /\ lastCall' = twin.state[13]
  /\ issued' = twin.state[14]
  /\ callLog' = twin.state[15]
  /\ numRuns' = twin.state[16]
  /\ obstacles' = twin.state[17]
  /\ kdObstacles' = twin.state[18]
  /\ twin' = [turn |-> IF twin.turn = "first" THEN "second" ELSE "first",
              stage |-> IF twin.turn = "first" THEN "replay" ELSE "ready",
              call |-> IF twin.turn = "first" THEN twin.call ELSE NoCall,
              state |-> simVars]
  /\ UNCHANGED <<probe, statics, rest>>

\* Other code calls Vector2D.put, Vector2D.get or Math.random.
ElsewherePut ==
  /\ pc = "idle"
  /\ statics.poolSize < MaxPool
  /\ statics' = [statics EXCEPT !.poolSize = @ + 1]
  /\ UNCHANGED <<simVars, probe, twin, rest>>

ElsewhereGet ==
  /\ pc = "idle"
  /\ statics.poolSize > 0
  /\ statics' = [statics EXCEPT !.poolSize = @ - 1]
  /\ UNCHANGED <<simVars, probe, twin, rest>>

ElsewhereRandom ==
  /\ pc = "idle"
  /\ statics' = [statics EXCEPT !.seed = 1 - @]
  /\ UNCHANGED <<simVars, probe, twin, rest>>

\* The one template of the two simulators.
TwinDefaults == {d \in Defaults : d.radius < d.maxSpeed}

NextTwin ==
  \/ \E d \in TwinDefaults :
        SetAgentDefaults(d) /\ TwinIssue(TwinCall("setAgentDefaults", <<d>>))
  \/ AddAgent(StartPosition(nextAgentId))
        /\ TwinIssue(TwinCall("addAgent", <<StartPosition(nextAgentId)>>))
  \/ RemoveAgent(0) /\ TwinIssue(TwinCall("removeAgent", <<0>>))
  \/ \E id \in AgentIds \ {MaxAgents} : \E v \in PrefVelocities(id) :
        SetAgentPrefVelocity(id, v)
          /\ TwinIssue(TwinCall("setAgentPrefVelocity", <<id, v>>))
  \/ \E p \in NewPositions :
        SetAgentPosition(0, p) /\ TwinIssue(TwinCall("setAgentPosition", <<0, p>>))
  \/ RunBegin /\ TwinIssue(TwinCall("run", <<>>))
  \/ RunComputeNeighbors /\ TwinInside
  \/ RunComputeNewVelocity /\ TwinInside
  \/ RunUpdate /\ TwinInside
  \/ RunEnd /\ TwinInside
  \/ TwinSwap
  \/ ElsewherePut
  \/ ElsewhereGet
  \/ ElsewhereRandom

SpecTwin == InitTwin /\ [][NextTwin]_vars

(***************************************************************************)
(* The head-on scenario: two agents of radius 0.5 and maxSpeed 1 start at  *)
(* (-5, 0) and (5, 0) with each other's start as goal.  Before every run() *)
(* the driver points each preferred velocity at the agent's goal: the      *)
(* vector to the goal, normalized when longer than 1.  The time step is    *)
(* the default 0.25 or 0.02, a frame of a game.                            *)
(***************************************************************************)
\* run() is called at most MaxTicks times.
MaxTicks == 520

HeadOnTimeSteps == {SCALE \div 4, SCALE \div 50}

HeadOnDefaults == CHOOSE d \in Defaults : d.radius = SCALE \div 2

\* The goal of the agent that starts at StartPosition(id).
HeadOnGoal(id) == StartPosition(1 - id)

Driver(phase) == [op |-> "headOn", phase |-> phase]

InitHeadOn ==
  /\ InitSimulator
  /\ probe = Driver("defaults")
  /\ twin = NoTwin
  /\ statics = InitStatics
  /\ InitRest

DriverNext(from, to) ==
  /\ probe = Driver(from)
  /\ probe' = Driver(to)
  /\ UNCHANGED <<twin, statics, rest>>

\* The vector to the goal, normalized when longer than 1.
towardsGoal(goal, position) ==
  IF Gt(absSq(minus(goal, position)), SCALE)
  THEN normalize(minus(goal, position))
  ELSE minus(goal, position)

\* for each agent: setAgentPrefVelocity(id, towards its goal)
HeadOnSteer ==
  /\ pc = "idle"
  /\ numRuns < MaxTicks
  /\ objs' = [id \in DOMAIN objs |->
                setPrefVelocity(objs[id], towardsGoal(goalsMap[id], objs[id].position))]
  /\ lastCall' = Call("void")
  /\ UNCHANGED <<nextAgentId, agentMap, goalsMap, agents, agentsDirty, kdAgents,
                 timeStep, time, defaultAgent, pc, runIndex, issued, callLog,
                 numRuns, obstacles, kdObstacles>>

NextHeadOn ==
  \/ SetAgentDefaults(HeadOnDefaults) /\ DriverNext("defaults", "agents")
  \/ AddAgent(StartPosition(nextAgentId))
       /\ DriverNext("agents", IF nextAgentId + 1 < 2 THEN "agents" ELSE "goals")
  \/ \E id \in 0..1 :
       /\ probe = Driver("goals")
       /\ goalsMap[id] # HeadOnGoal(id)
       /\ SetAgentGoal(id, HeadOnGoal(id))
       /\ DriverNext("goals", IF goalsMap'[1 - id] = HeadOnGoal(1 - id)
                              THEN "timeStep" ELSE "goals")
  \/ \E dt \in HeadOnTimeSteps : SetTimeStep(dt) /\ DriverNext("timeStep", "steer")
  \/ HeadOnSteer /\ DriverNext("steer", "run")
  \/ RunEnter /\ DriverNext("run", "steer")
  \/ RunComputeNeighbors /\ UNCHANGED aux
  \/ RunComputeNewVelocity /\ UNCHANGED aux
  \/ RunUpdate /\ UNCHANGED aux
  \/ RunEnd /\ UNCHANGED aux

SpecHeadOn == InitHeadOn /\ [][NextHeadOn]_vars

(***************************************************************************)
(* The simulator steered by a caller that changes the preferred velocities *)
(* between runs; the preferred velocities lie inside the disc of maxSpeed. *)
(***************************************************************************)
SteerVelocities == {Vec(SCALE \div 2, 0), Vec(0, SCALE \div 2)}

NextSteer ==
  \/ SetAgentDefaults(HeadOnDefaults) /\ UNCHANGED aux
  \/ AddAgent(StartPosition(nextAgentId)) /\ UNCHANGED aux
  \/ \E id \in AgentIds : \E v \in SteerVelocities :
        SetAgentPrefVelocity(id, v) /\ UNCHANGED aux
  \/ RunBegin /\ UNCHANGED aux
  \/ RunComputeNeighbors /\ UNCHANGED aux
  \/ RunComputeNewVelocity /\ UNCHANGED aux
  \/ RunUpdate /\ UNCHANGED aux
  \/ RunEnd /\ UNCHANGED aux

SpecSteer == Init /\ [][NextSteer]_vars

(***************************************************************************)
(* The simulator with a record of the agents as they were when run() was   *)
(* entered (probe.start, observation only).                                *)
(***************************************************************************)
TickStart(os) == [op |-> "run", start |-> os]

NextTick ==
  \/ \E d \in Defaults : SetAgentDefaults(d) /\ UNCHANGED aux
  \/ AddAgent(StartPosition(nextAgentId)) /\ UNCHANGED aux
  \/ \E id \in AgentIds : \E v \in PrefVelocities(id) :
        SetAgentPrefVelocity(id, v) /\ UNCHANGED aux
  \/ \E id \in MovedIds : \E p \in NewPositions :
        SetAgentPosition(id, p) /\ UNCHANGED aux
  \/ RunBegin /\ probe' = TickStart(objs) /\ UNCHANGED <<twin, statics, rest>>
  \/ RunComputeNeighbors /\ UNCHANGED aux
  \/ RunComputeNewVelocity /\ UNCHANGED aux
  \/ RunUpdate /\ UNCHANGED aux
  \/ RunEnd /\ UNCHANGED aux

SpecTick == Init /\ [][NextTick]_vars

(***************************************************************************)
(* ECS: World, EntityManager, ComponentManager, Query.                     *)
(***************************************************************************)
\* What the World does not own.
notWorld == <<nextAgentId, objs, agentMap, goalsMap, agents, agentsDirty,
              kdAgents, timeStep, time, defaultAgent, pc, runIndex, lastCall,
              issued, callLog, numRuns, obstacles, kdObstacles, probe, twin,
              statics, dispatcher, hotUpdate>>

\* World.markQueriesDirty
markQueriesDirty(queries) ==
  [q \in DOMAIN queries |-> [queries[q] EXCEPT !.cacheDirty = TRUE]]

\* EntityManager.createEntity: a recycled id first (the last one pushed),
\* else the next id; a new or reset Entity is active.
createEntityId(w) ==
  IF Len(w.recycledIds) > 0 THEN w.recycledIds[Len(w.recycledIds)]
  ELSE w.nextEntityId

\* World.createEntity
createEntity ==
  /\ Len(world.recycledIds) > 0 \/ world.nextEntityId <= MaxEntities
  /\ world' = [world EXCEPT
       !.recycledIds = IF Len(@) > 0 THEN SubSeq(@, 1, Len(@) - 1) ELSE @,
       !.nextEntityId = IF Len(world.recycledIds) > 0 THEN @ ELSE @ + 1,
       !.entities = @ \cup {createEntityId(world)},
       !.active = @ \cup {createEntityId(world)},
       !.queries = markQueriesDirty(@)]
  /\ UNCHANGED notWorld

\* ComponentManager.removeAllComponents
removeAllComponents(bits, entityId) ==
  [id \in DOMAIN bits \ {entityId} |-> bits[id]]

\* World.destroyEntity: the components go whether or not the entity exists;
\* the queries are marked only when EntityManager.destroyEntity found it.
destroyEntity(entityId) ==
  /\ world' = [world EXCEPT
       !.entityComponentBits = removeAllComponents(@, entityId),
       !.entities = @ \ {entityId},
       !.active = @ \ {entityId},
       !.recycledIds = IF entityId \in world.entities
                         THEN Append(@, entityId) ELSE @,
       !.queries = IF entityId \in world.entities
                     THEN markQueriesDirty(@) ELSE @]
  /\ UNCHANGED notWorld

\* ComponentManager.addComponent: the bit set is created when missing.
addComponentBits(bits, entityId, type) ==
  [id \in DOMAIN bits \cup {entityId} |->
     IF id = entityId
       THEN (IF entityId \in DOMAIN bits THEN bits[entityId] ELSE {})
              \cup {type}
       ELSE bits[id]]

\* World.addComponent
addComponent(entityId, type) ==
  /\ world' = [world EXCEPT
       !.entityComponentBits = addComponentBits(@, entityId, type),
       !.queries = markQueriesDirty(@)]
  /\ UNCHANGED notWorld

\* ComponentManager.removeComponent returns true.
hasComponent(bits, entityId, type) ==
  /\ entityId \in DOMAIN bits
  /\ type \in bits[entityId]

\* World.removeComponent
removeComponent(entityId, type) ==
  /\ world' = [world EXCEPT
       !.entityComponentBits =
          IF hasComponent(@, entityId, type)
            THEN [@ EXCEPT ![entityId] = @ \ {type}] ELSE @,
       !.queries =
          IF hasComponent(world.entityComponentBits, entityId, type)
            THEN markQueriesDirty(@) ELSE @]
  /\ UNCHANGED notWorld

\* Entity.active = value, on an entity of the World.
setActive(entityId, value) ==
  /\ entityId \in world.entities
  /\ world' = [world EXCEPT
       !.active = IF value THEN @ \cup {entityId} ELSE @ \ {entityId}]
  /\ UNCHANGED notWorld

\* Query.matchesEntity
matchesEntity(config, bits, entityId) ==
  /\ entityId \in DOMAIN bits
  /\ config.all # {} => config.all \subseteq bits[entityId]
  /\ config.any # {} => config.any \cap bits[entityId] # {}
  /\ config.none # {} => config.none \cap bits[entityId] = {}

\* Query.updateCache
updateCache(w, q) ==
  IF ~w.queries[q].cacheDirty THEN w.queries[q]
  ELSE [cachedEntities |->
          {id \in w.entities \cap w.active :
             matchesEntity(Queries[q], w.entityComponentBits, id)},
        cacheDirty |-> FALSE]

\* Query.getEntities: the cached ids that EntityManager.getEntity finds.
getEntities(q) ==
  /\ world' = [world EXCEPT
       !.queries[q] = updateCache(world, q),
       !.result = [op |-> "getEntities", query |-> q,
                   ids |-> updateCache(world, q).cachedEntities
                             \cap world.entities]]
  /\ UNCHANGED notWorld

\* Query.getCount
getCount(q) ==
  /\ world' = [world EXCEPT
       !.queries[q] = updateCache(world, q),
       !.result = [op |-> "getCount", query |-> q,
                   count |-> Cardinality(updateCache(world, q).cachedEntities)]]
  /\ UNCHANGED notWorld

NextWorld ==
  \/ createEntity
  \/ \E id \in EntityIds : destroyEntity(id)
  \/ \E id \in EntityIds : \E t \in ComponentTypes : addComponent(id, t)
  \/ \E id \in EntityIds : \E t \in ComponentTypes : removeComponent(id, t)
  \/ \E id \in EntityIds : \E v \in BOOLEAN : setActive(id, v)
  \/ \E q \in DOMAIN Queries : getEntities(q)
  \/ \E q \in DOMAIN Queries : getCount(q)

SpecWorld == Init /\ [][NextWorld]_vars

(***************************************************************************)
(* ECS: SystemManager.  A system is a record of its class, the priority    *)
(* its constructor gave it, the number of its registration and its         *)
(* enabled flag.  World.update is one action per step of its loop, so that *)
(* an onUpdate can register, remove, enable and disable systems.           *)
(***************************************************************************)
MaxRegistrations == 4

SystemTypes == {"Input", "Physics", "Movement", "Render"}

\* The priority field of a new instance of the class.
priorityOf(systemType) ==
  CASE systemType = "Input" -> 0
    [] systemType = "Physics" -> 10
    [] systemType = "Movement" -> 10
    [] systemType = "Render" -> 100

\* new systemType()
NewSystem(systemType, stamp) ==
  [type |-> systemType, priority |-> priorityOf(systemType), stamp |-> stamp,
   enabled |-> TRUE]

\* The comparator of registerSystem: (a, b) => a.priority - b.priority.
compareSystems(a, b) == a.priority - b.priority

\* Array.prototype.sort is stable: an element goes behind the elements that
\* the comparator does not put after it.
sortInsert(sorted, s) ==
  SelectSeq(sorted, LAMBDA e : compareSystems(e, s) <= 0)
    \o <<s>> \o SelectSeq(sorted, LAMBDA e : compareSystems(e, s) > 0)

RECURSIVE sortSystems(_)
sortSystems(systems) ==
  IF systems = <<>> THEN <<>>
  ELSE sortInsert(sortSystems(SubSeq(systems, 1, Len(systems) - 1)),
                  systems[Len(systems)])

\* systemTypes.has(systemType)
hasSystem(w, systemType) == \E k \in 1..Len(w.systems) : w.systems[k].type = systemType

\* Application code runs between two updates or inside an onUpdate.
AppRuns == world.update.pc \in {"idle", "onUpdate"}

\* The systems list changes while an update is running.
Touched(w) == [w.update EXCEPT !.touched = (w.update.pc # "idle")]

\* World.registerSystem of a class that is not registered.
registerSystem(systemType) ==
  /\ AppRuns
  /\ ~hasSystem(world, systemType)
  /\ world.nextStamp <= MaxRegistrations
  /\ world' = [world EXCEPT
       !.systems = sortSystems(Append(@, NewSystem(systemType, world.nextStamp))),
       !.nextStamp = @ + 1,
       !.update = Touched(world)]
  /\ UNCHANGED notWorld

\* World.removeSystem of a registered class.
removeSystem(systemType) ==
  /\ AppRuns
  /\ hasSystem(world, systemType)
  /\ world' = [world EXCEPT
       !.systems = SelectSeq(@, LAMBDA s : s.type # systemType),
       !.update = Touched(world)]
  /\ UNCHANGED notWorld

\* system.enabled = value, on a registered system.
setEnabled(systemType, value) ==
  /\ AppRuns
  /\ \E k \in 1..Len(world.systems) :
       /\ world.systems[k].type = systemType
       /\ world.systems[k].enabled # value
       /\ world' = [world EXCEPT !.systems[k].enabled = value,
                                 !.update = Touched(world)]
  /\ UNCHANGED notWorld

\* World.update is called: the loop over this.systems starts.
updateBegin ==
  /\ world.update.pc = "idle"
  /\ world' = [world EXCEPT
       !.update = [pc |-> "loop", index |-> 0, calls |-> <<>>,
                   touched |-> FALSE]]
  /\ UNCHANGED notWorld

\* The loop is at the end of the list as it is now.
updateEnd ==
  /\ world.update.pc = "loop"
  /\ world.update.index >= Len(world.systems)
  /\ world' = [world EXCEPT !.update.pc = "idle"]
  /\ UNCHANGED notWorld

\* One turn of the loop: the next system, onUpdate if it is enabled.
updateNext ==
  /\ world.update.pc = "loop"
  /\ world.update.index < Len(world.systems)
  /\ world' = [world EXCEPT
       !.update.index = @ + 1,
       !.update.calls =
          IF world.systems[world.update.index + 1].enabled
            THEN Append(@, world.systems[world.update.index + 1]) ELSE @,
       !.update.pc =
          IF world.systems[world.update.index + 1].enabled
            THEN "onUpdate" ELSE "loop"]
  /\ UNCHANGED notWorld

\* onUpdate returns.
updateReturn ==
  /\ world.update.pc = "onUpdate"
  /\ world' = [world EXCEPT !.update.pc = "loop"]
  /\ UNCHANGED notWorld

NextSystems ==
  \/ \E t \in SystemTypes : registerSystem(t)
  \/ \E t \in SystemTypes : removeSystem(t)
  \/ \E t \in SystemTypes : \E v \in BOOLEAN : setEnabled(t, v)
  \/ updateBegin
  \/ updateNext
  \/ updateReturn
  \/ updateEnd

SpecSystems == Init /\ [][NextSystems]_vars

(***************************************************************************)
(* FWEventDispatcher: the listeners of one event, none of them on '*', and *)
(* no interceptor.  A listener is a record of the number of its            *)
(* registration (its callback), its once flag and its priority.  emit is   *)
(* one action per step of its loop; a callback can register and remove     *)
(* listeners and emit the event again, and returns or throws.              *)
(***************************************************************************)
MaxListeners == 3

MaxDepth == 2

Priorities == {0, 1}

\* What the dispatcher does not own.
notDispatcher == <<nextAgentId, objs, agentMap, goalsMap, agents, agentsDirty,
                   kdAgents, timeStep, time, defaultAgent, pc, runIndex,
                   lastCall, issued, callLog, numRuns, obstacles, kdObstacles,
                   probe, twin, statics, world, hotUpdate>>

\* The listener object that on and once build.
Listener(id, isOnce, priority) ==
  [id |-> id, once |-> isOnce, priority |-> priority]

\* The comparator of sortListeners: (b.priority || 0) - (a.priority || 0).
compareListeners(a, b) == b.priority - a.priority

\* FWEventDispatcher.sortListeners: Array.prototype.sort is stable.
sortListenersInsert(sorted, s) ==
  SelectSeq(sorted, LAMBDA e : compareListeners(e, s) <= 0)
    \o <<s>> \o SelectSeq(sorted, LAMBDA e : compareListeners(e, s) > 0)

RECURSIVE sortListeners(_)
sortListeners(listeners) ==
  IF listeners = <<>> THEN <<>>
  ELSE sortListenersInsert(
         sortListeners(SubSeq(listeners, 1, Len(listeners) - 1)),
         listeners[Len(listeners)])

\* The emit that is running innermost.
Top == dispatcher.frames[Len(dispatcher.frames)]

\* Application code runs outside emit or inside a callback.
CallerRuns == IF dispatcher.frames = <<>> THEN TRUE ELSE Top.pc = "callback"

\* eventListeners.push(listener); this.sortListeners(eventListeners)
pushListener(d, isOnce, priority) ==
  [d EXCEPT
     !.listeners = sortListeners(Append(@, Listener(d.nextId, isOnce, priority))),
     !.nextId = @ + 1]

\* FWEventDispatcher.on(event, callback, target, priority)
on(priority) ==
  /\ CallerRuns
  /\ dispatcher.nextId <= MaxListeners
  /\ dispatcher' = pushListener(dispatcher, FALSE, priority)
  /\ UNCHANGED notDispatcher

\* FWEventDispatcher.once(event, callback, target, priority)
once(priority) ==
  /\ CallerRuns
  /\ dispatcher.nextId <= MaxListeners
  /\ dispatcher' = pushListener(dispatcher, TRUE, priority)
  /\ UNCHANGED notDispatcher

\* FWEventDispatcher.off(event, callback) of a registered callback.
off(id) ==
  /\ CallerRuns
  /\ \E k \in 1..Len(dispatcher.listeners) : dispatcher.listeners[k].id = id
  /\ dispatcher' = [dispatcher EXCEPT
       !.listeners = SelectSeq(@, LAMBDA l : l.id # id)]
  /\ UNCHANGED notDispatcher

\* emit(event) is called and the event has listeners: they are copied.
emitBegin ==
  /\ CallerRuns
  /\ Len(dispatcher.frames) < MaxDepth
  /\ dispatcher.listeners # <<>>
  /\ dispatcher' = [dispatcher EXCEPT
       !.frames = Append(@,
          [registered |-> Range(dispatcher.listeners),
           eventListeners |-> dispatcher.listeners,
           index |-> 0, toRemove |-> {}, calls |-> <<>>, pc |-> "loop"])]
  /\ UNCHANGED notDispatcher

\* The listener the loop is at.
Current == Top.eventListeners[Top.index]

\* One turn of the loop: the callback of the next listener is called.
emitInvoke ==
  /\ dispatcher.frames # <<>>
  /\ Top.pc = "loop"
  /\ Top.index < Len(Top.eventListeners)
  /\ dispatcher' = [dispatcher EXCEPT
       !.frames[Len(dispatcher.frames)].index = @ + 1,
       !.frames[Len(dispatcher.frames)].pc = "callback",
       !.fired = IF Top.eventListeners[Top.index + 1].once
                   THEN @ \cup {Top.eventListeners[Top.index + 1].id} ELSE @,
       !.refired = IF /\ Top.eventListeners[Top.index + 1].once
                      /\ Top.eventListeners[Top.index + 1].id \in dispatcher.fired
                   THEN @ \cup {Top.eventListeners[Top.index + 1].id} ELSE @]
  /\ UNCHANGED notDispatcher

\* The callback returns: a once listener is marked for removal.
callbackReturn ==
  /\ dispatcher.frames # <<>>
  /\ Top.pc = "callback"
  /\ dispatcher' = [dispatcher EXCEPT
       !.frames[Len(dispatcher.frames)].pc = "loop",
       !.frames[Len(dispatcher.frames)].calls =
          Append(@, [listener |-> Current, thrown |-> FALSE]),
       !.frames[Len(dispatcher.frames)].toRemove =
          IF Current.once THEN @ \cup {Current.id} ELSE @]
  /\ UNCHANGED notDispatcher

\* The callback throws and nothing catches it: the loop is left.
callbackThrowUncaught ==
  /\ dispatcher.frames # <<>>
  /\ Top.pc = "callback"
  /\ dispatcher' = [dispatcher EXCEPT
       !.frames[Len(dispatcher.frames)].pc = "loop",
       !.frames[Len(dispatcher.frames)].index = Len(Top.eventListeners),
       !.frames[Len(dispatcher.frames)].calls =
          Append(@, [listener |-> Current, thrown |-> TRUE])]
  /\ UNCHANGED notDispatcher

\* The callback throws: the catch logs the error and the loop goes on.
callbackThrow ==
  /\ dispatcher.frames # <<>>
  /\ Top.pc = "callback"
  /\ dispatcher' = [dispatcher EXCEPT
       !.frames[Len(dispatcher.frames)].pc = "loop",
       !.frames[Len(dispatcher.frames)].calls =
          Append(@, [listener |-> Current, thrown |-> TRUE])]
  /\ UNCHANGED notDispatcher

\* The loop is over: the listeners marked are taken out of the list as it
\* is now, and emit returns.
emitEnd ==
  /\ dispatcher.frames # <<>>
  /\ Top.pc = "loop"
  /\ Top.index >= Len(Top.eventListeners)
  /\ dispatcher' = [dispatcher EXCEPT
       !.listeners = SelectSeq(@, LAMBDA l : l.id \notin Top.toRemove),
       !.frames = SubSeq(@, 1, Len(@) - 1)]
  /\ UNCHANGED notDispatcher

NextDispatcher ==
  \/ \E p \in Priorities : on(p)
  \/ \E p \in Priorities : once(p)
  \/ \E id \in 1..MaxListeners : off(id)
  \/ emitBegin
  \/ emitInvoke
  \/ callbackReturn
  \/ callbackThrow
  \/ emitEnd

SpecDispatcher == Init /\ [][NextDispatcher]_vars

(***************************************************************************)
(* HotUpdateQueue.  A manager of the queue (FWHotUpdate) is its state:     *)
(* "checking" after checkUpdate, "checked" once it has called notUpdate or *)
(* prepareUpdate, "updating" after doHotUpdate, "updated" after            *)
(* UPDATE_FINISHED, "failed" after a failure, "destroyed".  The code's     *)
(* indices start at 0: entry i of the code is queue[i + 1].                *)
(***************************************************************************)
MaxQueue == 4

\* What the queue does not own.
notHotUpdate == <<nextAgentId, objs, agentMap, goalsMap, agents, agentsDirty,
                  kdAgents, timeStep, time, defaultAgent, pc, runIndex,
                  lastCall, issued, callLog, numRuns, obstacles, kdObstacles,
                  probe, twin, statics, world, dispatcher>>

\* needUpdateHotUpdateManagerQueueUpdateFlag[index] is true.
flagged(h, index) ==
  /\ index \in DOMAIN h.flag
  /\ h.flag[index]

\* needUpdateHotUpdateManagerQueueUpdateFlag[index] = value
setFlag(h, index, value) ==
  [h EXCEPT !.flag = [i \in DOMAIN h.flag \cup {index} |->
                        IF i = index THEN value ELSE h.flag[i]]]

\* FWHotUpdate.doHotUpdate of entry index.
doHotUpdate(h, index) ==
  [h EXCEPT !.queue[index + 1] = "updating",
            !.updates = Append(@, index)]

\* HotUpdateQueue.endUpdate: the managers are destroyed and the promise's
\* resolve is called with isCancelUpdate false.
endUpdate(h) ==
  [h EXCEPT !.queue = [i \in DOMAIN h.queue |-> "destroyed"],
            !.resolved = @ + 1]

\* HotUpdateQueue.checkNextUpdate and updateSuccess, which call each other.
RECURSIVE checkNextUpdate(_)
checkNextUpdate(h) ==
  IF h.runIndex >= Len(h.queue) THEN endUpdate(h)
  ELSE IF flagged(h, h.runIndex)
         THEN checkNextUpdate([h EXCEPT !.runIndex = @ + 1])
         ELSE doHotUpdate(h, h.runIndex)

\* HotUpdateQueue.updateSuccess
updateSuccess(h) == checkNextUpdate([h EXCEPT !.runIndex = @ + 1])

\* startHotUpdate without its test.
startHotUpdateAtOnce(h) == checkNextUpdate([h EXCEPT !.runIndex = 0])

\* HotUpdateQueue.startHotUpdate
startHotUpdate(h) ==
  IF h.initUpdateCount = Len(h.queue)
    THEN checkNextUpdate([h EXCEPT !.runIndex = 0])
    ELSE h

\* HotUpdateQueue.startUpdate of a queue of n managers (none, when n is 0),
\* prepareUpdate included: every manager gets its lister and checkUpdate is
\* called.  The queue is started once: endUpdateCallback, which says
\* whether the promise's resolve has been stored, is true from then on.
startUpdate(n) ==
  /\ ~hotUpdate.endUpdateCallback
  /\ hotUpdate' = [hotUpdate EXCEPT
       !.endUpdateCallback = TRUE,
       !.queue = [i \in 1..n |-> "checking"],
       !.flag = <<>>,
       !.initUpdateCount = 0]
  /\ UNCHANGED notHotUpdate

\* The manager of entry index is in the given state.
managerIs(index, state) ==
  /\ index + 1 \in DOMAIN hotUpdate.queue
  /\ hotUpdate.queue[index + 1] = state

\* lister.notUpdate of entry index: the check found nothing to update.
listerNotUpdate(index) ==
  /\ managerIs(index, "checking")
  /\ hotUpdate' = startHotUpdate(setFlag(
       [hotUpdate EXCEPT !.initUpdateCount = @ + 1,
                         !.queue[index + 1] = "checked"], index, TRUE))
  /\ UNCHANGED notHotUpdate

\* lister.prepareUpdate of entry index: the check found a new version.
listerPrepareUpdate(index) ==
  /\ managerIs(index, "checking")
  /\ hotUpdate' = startHotUpdate(setFlag(
       [hotUpdate EXCEPT !.initUpdateCount = @ + 1,
                         !.queue[index + 1] = "checked"], index, FALSE))
  /\ UNCHANGED notHotUpdate

\* lister.downloadUpdateConfigFail or updateFail of a manager whose check
\* fails: the queue emits an event.
listerCheckFail(index) ==
  /\ managerIs(index, "checking")
  /\ hotUpdate' = [hotUpdate EXCEPT !.queue[index + 1] = "failed"]
  /\ UNCHANGED notHotUpdate

\* lister.updateSuccess of entry index: its update has finished.
listerUpdateSuccess(index) ==
  /\ managerIs(index, "updating")
  /\ hotUpdate' = updateSuccess(setFlag(
       [hotUpdate EXCEPT !.queue[index + 1] = "updated"], index, TRUE))
  /\ UNCHANGED notHotUpdate

\* lister.updateFail of entry index: its update has failed.
listerUpdateFail(index) ==
  /\ managerIs(index, "updating")
  /\ hotUpdate' = [hotUpdate EXCEPT !.queue[index + 1] = "failed"]
  /\ UNCHANGED notHotUpdate

NextHotUpdate ==
  \/ \E n \in 0..MaxQueue : startUpdate(n)
  \/ \E i \in 0..MaxQueue - 1 : listerNotUpdate(i)
  \/ \E i \in 0..MaxQueue - 1 : listerPrepareUpdate(i)
  \/ \E i \in 0..MaxQueue - 1 : listerCheckFail(i)
  \/ \E i \in 0..MaxQueue - 1 : listerUpdateSuccess(i)
  \/ \E i \in 0..MaxQueue - 1 : listerUpdateFail(i)

SpecHotUpdate == Init /\ [][NextHotUpdate]_vars

(***************************************************************************)
(* Behaviour tree: a Selector over leaf children, ticked again and again.  *)
(* probe holds the node: its children's number and status, its             *)
(* currentChildIndex and status, and what is recorded of the last execute  *)
(* (tick: the index it started from, what each child would return, the     *)
(* children executed, entered and exited, in order, and what was           *)
(* returned).  A leaf's execute returns what the environment chooses and   *)
(* assigns it to the leaf's status; the leaves' onExit either leaves the   *)
(* status or makes it READY again (readyAfterExit, one or the other for    *)
(* the whole behaviour).                                                   *)
(***************************************************************************)
MaxChildren == 3

\* What the execute of a leaf can return.
Outcomes == {"success", "failure", "running"}

NoTick ==
  [start |-> 0, outcomes |-> <<>>, executed |-> <<>>, entered |-> <<>>,
   exited |-> <<>>, returned |-> "ready"]

\* new Selector(name) with n children added.
NewSelector(n, readyAfterExit) ==
  [op |-> "selector", numChildren |-> n, readyAfterExit |-> readyAfterExit,
   currentChildIndex |-> 0, status |-> "ready",
   childStatus |-> [k \in 1..n |-> "ready"], tick |-> NoTick]

\* CompositeNode.executeChild on child i, whose execute returns outcome.
executeChild(node, i, outcome) ==
  [node EXCEPT
     !.tick.entered = IF At(node.childStatus, i) = "ready" THEN Append(@, i) ELSE @,
     !.tick.executed = Append(@, i),
     !.tick.exited = IF outcome \in {"success", "failure"} THEN Append(@, i) ELSE @,
     !.childStatus[i + 1] =
        IF outcome \in {"success", "failure"} /\ node.readyAfterExit THEN "ready"
        ELSE outcome]

\* The return of Selector.execute with a final status: the index is reset.
selectorReturn(node, status) ==
  [node EXCEPT !.currentChildIndex = 0, !.status = status,
               !.tick.returned = status]

\* A faulty RUNNING branch that does not remember the child.
selectorRunningForgets(node, i) ==
  [node EXCEPT !.currentChildIndex = 0, !.status = "running",
               !.tick.returned = "running"]

\* if (status === NodeStatus.RUNNING) { this.currentChildIndex = i; ... }
selectorRunning(node, i) ==
  [node EXCEPT !.currentChildIndex = i, !.status = "running",
               !.tick.returned = "running"]

RECURSIVE selectorLoop(_, _, _)
\* The loop of Selector.execute from child i on.
selectorLoop(node, i, outcomes) ==
  IF i >= node.numChildren THEN selectorReturn(node, "failure")
  ELSE IF At(outcomes, i) = "success"
  THEN selectorReturn(executeChild(node, i, "success"), "success")
  ELSE IF At(outcomes, i) = "running"
  THEN selectorRunning(executeChild(node, i, "running"), i)
  ELSE selectorLoop(executeChild(node, i, "failure"), i + 1, outcomes)

\* Selector.execute
selectorExecute(node, outcomes) ==
  IF node.numChildren = 0
  THEN [node EXCEPT !.status = "failure",
                    !.tick = [NoTick EXCEPT !.start = node.currentChildIndex,
                                            !.returned = "failure"]]
  ELSE selectorLoop([node EXCEPT !.tick = [NoTick EXCEPT
                                             !.start = node.currentChildIndex,
                                             !.outcomes = outcomes]],
                    node.currentChildIndex, outcomes)

\* CompositeNode.onEnter
compositeOnEnter(node) == [node EXCEPT !.currentChildIndex = 0]

\* CompositeNode.onExit; the onExit it inherits is that of the leaves.
compositeOnExit(node) ==
  [node EXCEPT !.currentChildIndex = 0,
               !.status = IF node.readyAfterExit THEN "ready" ELSE @]

\* BehaviorTree.execute, and the same steps of CompositeNode.executeChild
\* on a selector: onEnter when the node is READY, execute, onExit when it
\* is finished.
treeExecute(node, outcomes) ==
  LET done == selectorExecute(IF node.status = "ready" THEN compositeOnEnter(node)
                                                       ELSE node,
                              outcomes)
  IN IF done.tick.returned \in {"success", "failure"} THEN compositeOnExit(done)
     ELSE done

InitSelector ==
  /\ InitSimulator
  /\ twin = NoTwin
  /\ statics = InitStatics
  /\ InitRest
  /\ \E n \in 0..MaxChildren : \E readyAfterExit \in BOOLEAN :
       probe = NewSelector(n, readyAfterExit)

\* One tick: the caller executes the selector.
SelectorExecute ==
  /\ probe.op = "selector"
  /\ \E outcomes \in [1..probe.numChildren -> Outcomes] :
       probe' = treeExecute(probe, outcomes)
  /\ UNCHANGED <<simVars, twin, statics, rest>>

NextSelector == SelectorExecute

SpecSelector == InitSelector /\ [][NextSelector]_vars

(***************************************************************************)
(* Behaviour tree: UntilSuccess over one child, one action per pass of     *)
(* its while (true) loop.  The child is a script: the outcomes of its      *)
(* successive executes, the last one repeated for ever after.  probe holds *)
(* the script, the number of executes answered from it so far (pos), the   *)
(* place of the call (pc: "idle" outside execute, "loop" inside), the      *)
(* node's status, what the last call returned, and the parity of the       *)
(* passes made (observation only).                                         *)
(***************************************************************************)
MaxScript == 3

\* The children: none, or a script of outcomes.
ChildScripts == {<<>>} \cup (SeqUpTo(Outcomes, MaxScript) \ {<<>>})

\* new UntilSuccess(name, child); the empty script stands for no child.
NewUntilSuccess(script) ==
  [op |-> "untilSuccess", script |-> script, pos |-> 0, pc |-> "idle",
   status |-> "ready", returned |-> "ready", parity |-> 0]

\* What this.child.execute(blackboard) returns on the next execute.
childExecute(node) ==
  node.script[IF node.pos < Len(node.script) THEN node.pos + 1
              ELSE Len(node.script)]

InitUntilSuccess ==
  /\ InitSimulator
  /\ twin = NoTwin
  /\ statics = InitStatics
  /\ InitRest
  /\ \E script \in ChildScripts : probe = NewUntilSuccess(script)

\* UntilSuccess.execute is called: without a child it returns FAILURE, with
\* one it enters the loop.
untilSuccessCall ==
  /\ probe.op = "untilSuccess"
  /\ probe.pc = "idle"
  /\ probe' = IF probe.script = <<>>
              THEN [probe EXCEPT !.status = "failure", !.returned = "failure"]
              ELSE [probe EXCEPT !.pc = "loop", !.returned = "ready"]
  /\ UNCHANGED <<simVars, twin, statics, rest>>

\* One pass of the loop: the child is executed; SUCCESS and RUNNING are
\* returned, after a FAILURE the child is reset and entered and the loop
\* goes on.
untilSuccessPass ==
  /\ probe.op = "untilSuccess"
  /\ probe.pc = "loop"
  /\ probe' = [probe EXCEPT
       !.pos = IF @ < Len(probe.script) THEN @ + 1 ELSE @,
       !.parity = 1 - @,
       !.pc = IF childExecute(probe) = "failure" THEN "loop" ELSE "idle",
       !.status = IF childExecute(probe) = "failure" THEN @
                  ELSE childExecute(probe),
       !.returned = IF childExecute(probe) = "failure" THEN @
                    ELSE childExecute(probe)]
  /\ UNCHANGED <<simVars, twin, statics, rest>>

NextUntilSuccess ==
  \/ untilSuccessCall
  \/ untilSuccessPass

\* The loop runs on by itself: a pass that can be made is made.
SpecUntilSuccess ==
  InitUntilSuccess /\ [][NextUntilSuccess]_vars /\ WF_vars(untilSuccessPass)

(***************************************************************************)
(* Properties.                                                             *)
(***************************************************************************)
\* run() has just returned normally.
RunReturned == pc = "idle" /\ lastCall.op = "run" /\ ~lastCall.thrown

\* The squared distance of a registered agent to its goal exceeds epsilon.
FarFromGoal(id) ==
  Has(goalsMap, id)
    /\ Gt(absSq(minus(goalsMap[id], objs[id].position)), RVO_EPSILON)

\* C1: speed bound.  After any run(), every registered agent's committed
\* velocity satisfies |velocity| <= maxSpeed + epsilon, whatever its radius.
C1_SpeedBound ==
  RunReturned =>
    \A id \in Range(agentMap) :
       Le(abs(objs[id].velocity), NumAdd(objs[id].maxSpeed, RVO_EPSILON))

\* The allocating formula for w: relativeVelocity - relativePosition * (1/h).
allocatingW(relativePosition, relativeVelocity, h) ==
  minus(relativeVelocity, scaleInv(relativePosition, h))

\* C2: for every agent neighbor, the w the in-place computation produced
\* equals relativeVelocity - relativePosition / timeHorizon in the
\* non-colliding branch and relativeVelocity - relativePosition / timeStep in
\* the colliding branch (checked right after computeNewVelocity).
C2_InPlaceEqualsAllocating ==
  pc = "update" =>
    LET self == objs[At(agents, runIndex)]
    IN \A k \in 1..Len(self.orcaInfo) :
         self.orcaInfo[k].w =
           allocatingW(self.orcaInfo[k].relativePosition,
                       self.orcaInfo[k].relativeVelocity,
                       IF self.orcaInfo[k].branch = "collision"
                       THEN timeStep ELSE self.timeHorizon)

\* C3: between calls, reachedGoal() is false while some registered agent is
\* farther than epsilon (squared) from its goal and true otherwise, also when
\* agents were added, removed or moved since the last run().
C3_ReachedGoalCorrect ==
  pc = "idle" =>
    (reachedGoal <=> ~(\E id \in Range(agentMap) : FarFromGoal(id)))

\* C4: setAgentPosition, setAgentPrefVelocity and setAgentGoal with an id that
\* is not registered do not throw and leave the simulator's state unchanged.
C4_UnknownIdNoOp ==
  [][\A id \in AgentIds \ Range(agentMap) :
       ((\E p \in NewPositions : SetAgentPosition(id, p))
          \/ (\E v \in PrefVelocities(id) : SetAgentPrefVelocity(id, v))
          \/ (\E p \in GoalPoints : SetAgentGoal(id, p)))
       => (~lastCall'.thrown /\ UNCHANGED simState)]_vars

\* C5: addAgent before any setAgentDefaults throws and leaves the simulator
\* unchanged (no agent, no goal, no id consumed, dirty flag not set); the
\* first successful addAgent returns the first id, 0.
C5_AddAgentWithoutDefaults ==
  /\ [](issued # <<>> => issued[1] = 0)
  /\ [][(defaultAgent = Undefined /\ AddAgent(StartPosition(nextAgentId)))
          => (/\ lastCall'.op = "addAgent"
              /\ lastCall'.thrown
              /\ UNCHANGED simState
              /\ UNCHANGED issued)]_vars

\* addAgent has just thrown on a simulator that holds nothing.
C5_Witness ==
  /\ lastCall.op = "addAgent"
  /\ lastCall.thrown
  /\ defaultAgent = Undefined
  /\ nextAgentId = 0
  /\ agentMap = <<>>
  /\ ~agentsDirty

\* C6: the ids returned by successive successful addAgent calls are strictly
\* increasing, whatever removeAgent calls are interleaved; every registered
\* id was issued, and the next id is above all of them.
C6_IdsNeverRecycled ==
  /\ \A i, j \in 1..Len(issued) : i < j => issued[i] < issued[j]
  /\ Range(agentMap) \subseteq Range(issued)
  /\ \A i \in 1..Len(issued) : issued[i] < nextAgentId

\* An agent was added, removed, and another one added after it.
C6_Witness ==
  /\ Len(issued) = 2
  /\ issued[1] \notin Range(agentMap)
  /\ issued[2] \in Range(agentMap)

\* Every accessor of an agent answers undefined for id.
BehavesAsUnknown(id) ==
  /\ getAgentPosition(id) = Undefined
  /\ getAgentVelocity(id) = Undefined
  /\ getAgentPrefVelocity(id) = Undefined
  /\ getAgentRadius(id) = Undefined
  /\ getAgentOrcaLines(id) = Undefined

\* C7: removeAgent(id) on an unregistered id returns false and changes
\* nothing; on a registered id it returns true, the registry shrinks by
\* exactly one, the goal is deleted, and from then on the id behaves as
\* unknown: the accessors return undefined and the id is never registered
\* again (so a second removeAgent(id) is the first case).
C7_RemoveAgent ==
  /\ [](\A id \in AgentIds \ Range(agentMap) : BehavesAsUnknown(id))
  /\ [][\A id \in AgentIds :
          /\ RemoveAgent(id) =>
               IF id \in Range(agentMap)
               THEN /\ lastCall'.flag
                    /\ ~lastCall'.thrown
                    /\ Len(agentMap') = Len(agentMap) - 1
                    /\ Range(agentMap') = Range(agentMap) \ {id}
                    /\ ~Has(goalsMap', id)
                    /\ BehavesAsUnknown(id)'
               ELSE /\ ~lastCall'.flag
                    /\ ~lastCall'.thrown
                    /\ UNCHANGED simState
          /\ (id \in Range(issued) /\ id \notin Range(agentMap))
               => id \notin Range(agentMap')]_vars

\* removeAgent has just returned true and the removed id is unknown.
C7_Witness ==
  /\ lastCall.op = "removeAgent"
  /\ lastCall.flag
  /\ \E id \in Range(issued) :
       id \notin Range(agentMap) /\ ~Has(goalsMap, id) /\ BehavesAsUnknown(id)

\* _refreshAgents was called by the run() in progress.
Refreshed == callLog # <<>> /\ callLog[1][1] = "refreshAgents"

\* The calls of one whole run() over the dense array arr, in order.
TickCalls(arr, refreshed) ==
  (IF refreshed THEN <<<<"refreshAgents", -1>>>> ELSE <<>>)
    \o <<<<"buildAgentTree", -1>>>>
    \o [n \in 1..(3 * Len(arr)) |->
          <<IF (n - 1) % 3 = 0 THEN "computeNeighbors"
            ELSE IF (n - 1) % 3 = 1 THEN "computeNewVelocity"
            ELSE "update",
            arr[((n - 1) \div 3) + 1]>>]

IsPrefix(a, b) == Len(a) <= Len(b) /\ a = SubSeq(b, 1, Len(a))

\* The number of calls run() has made for the agent at runIndex.
StageOffset == IF pc = "computeNewVelocity" THEN 1 ELSE IF pc = "update" THEN 2 ELSE 0

\* A step in which run() returns or throws.
RunLeft == pc # "idle" /\ pc' = "idle"

\* C8: one run() refreshes the dense array if dirty, rebuilds the agent tree,
\* then calls computeNeighbors, computeNewVelocity, update once each for each
\* agent in array order, and after the last update advances the time by
\* exactly timeStep; nothing else changes the time.
C8_TickPipeline ==
  /\ [](pc # "idle" =>
          /\ IsPrefix(callLog, TickCalls(agents, Refreshed))
          /\ Len(callLog) = (IF Refreshed THEN 2 ELSE 1) + 3 * runIndex + StageOffset)
  /\ [][RunBegin => (agentsDirty <=> Refreshed')]_vars
  /\ [][time' # time => (pc = "advance" /\ callLog = TickCalls(agents, Refreshed))]_vars
  /\ [][RunLeft =>
          /\ callLog = TickCalls(agents, Refreshed)
          /\ time' = NumAdd(time, timeStep)]_vars

\* The ids update() was called on by the run() in progress, in order.
UpdatedIds ==
  LET u == SelectSeq(callLog, LAMBDA e : e[1] = "update")
  IN [k \in 1..Len(u) |-> u[k][2]]

\* C9: a run() steps exactly the registered agents: during a tick the dense
\* array is the registry, no agent outside the registry is updated, and when
\* the run() is over every registered agent was updated once; the array
\* changes only in a run() that finds the dirty flag set, which addAgent and
\* removeAgent set.
C9_TickStepsRegisteredAgents ==
  /\ [](~agentsDirty => agents = agentMap)
  /\ [](pc # "idle" => ~agentsDirty)
  /\ [][RunUpdate => At(agents, runIndex) \in Range(agentMap)]_vars
  /\ [][agents' # agents => (agentsDirty /\ RunBegin /\ agents' = agentMap)]_vars
  /\ [][((defaultAgent # Undefined /\ AddAgent(StartPosition(nextAgentId)))
           \/ (\E id \in Range(agentMap) : RemoveAgent(id)))
          => agentsDirty']_vars
  /\ [][RunLeft => UpdatedIds = agentMap]_vars

\* C10: run() never throws, in particular not for agents whose preferred
\* velocity was never set.
C10_RunCompletes == lastCall.op = "run" => ~lastCall.thrown


(***************************************************************************)
(* Obstacle registration.                                                  *)
(***************************************************************************)
\* C11: degenerate obstacle input.  Every addObstacle call with fewer than 2
\* vertices returns -1 and leaves the obstacle list as it was: same length,
\* and the same point, next, previous, isConvex and id in every segment.
C11_TooFewVertices ==
  [][\A vertices \in ObstacleShapes :
       (Len(vertices) < 2 /\ AddObstacle(vertices))
         => (lastCall'.ret = -1 /\ obstacles' = obstacles)]_vars

\* A call with too few vertices has just failed on a list that holds segments.
C11_Witness ==
  lastCall.op = "addObstacle" /\ lastCall.ret = -1 /\ Len(obstacles) > 0

\* The segments of the polygon whose first segment is at index first.
Polygon(first, n) == first..(first + n - 1)

RECURSIVE nextTimes(_, _, _)
\* The segment reached from s by following next k times.
nextTimes(obs, s, k) ==
  IF k = 0 THEN s ELSE nextTimes(obs, At(obs, s).next, k - 1)

\* The n segments from index first on are linked as one closed ring.
ClosedRing(obs, first, n) ==
  \A s \in Polygon(first, n) :
     /\ At(obs, s).next \in Polygon(first, n)
     /\ At(obs, s).previous \in Polygon(first, n)
     /\ At(obs, At(obs, s).next).previous = s
     /\ At(obs, At(obs, s).previous).next = s
     /\ nextTimes(obs, s, n) = s

\* C12: closed ring.  Every addObstacle call with n >= 2 vertices appends
\* exactly n segments, returns the list index of the first of them, and
\* leaves them linked as one closed ring: s.next.previous = s and
\* s.previous.next = s for each of them, n steps along next lead back to the
\* start, and next and previous stay inside the polygon.
C12_ClosedRing ==
  [][\A vertices \in ObstacleShapes :
       (Len(vertices) >= 2 /\ AddObstacle(vertices))
         => /\ Len(obstacles') = Len(obstacles) + Len(vertices)
            /\ lastCall'.ret = Len(obstacles)
            /\ ClosedRing(obstacles', Len(obstacles), Len(vertices))]_vars

\* A triangle has just been registered behind an earlier polygon.
C12_Witness ==
  /\ lastCall.op = "addObstacle"
  /\ lastCall.ret = 2
  /\ Len(obstacles) = MaxSegments
  /\ ClosedRing(obstacles, 2, 3)

\* What a registered segment keeps: point, previous, next, isConvex, id.
SegmentIdentity(o) == <<o.point, o.previous, o.next, o.isConvex, o.id>>

NoObstacleNeighbors ==
  \A id \in DOMAIN objs : objs[id].obstaclNeighbors = <<>>

(***************************************************************************)
(* Neighbor lists.                                                         *)
(***************************************************************************)
\* The keys of a neighbor list ascend.
Ascending(neighbors) ==
  \A k \in 1..(Len(neighbors) - 1) : Le(neighbors[k].key, neighbors[k + 1].key)

\* The offers (places in the offered sequence) of segments that lie within
\* rangeSq of the agent.
OffersInRange(self, offers, obs) ==
  {j \in 1..Len(offers) :
     Lt(distSqPointLineSegment(At(obs, offers[j]).point,
                               At(obs, At(obs, offers[j]).next).point,
                               self.position),
        obstacleRangeSq(self))}

\* C14: neighbor lists.  After computeNeighbors, whatever sequence of
\* candidates the spatial index offered, agentNeighbors ascends by squared
\* distance, holds at most maxNeighbors entries and never the querying agent;
\* obstaclNeighbors ascends by squared distance and holds one entry for every
\* offer of a segment whose squared distance is below rangeSq, however many.
C14_NeighborLists ==
  (probe.op = "computeNeighbors" /\ probe.done) =>
     /\ Ascending(probe.result.agentNeighbors)
     /\ Len(probe.result.agentNeighbors) <= probe.result.maxNeighbors
     /\ \A k \in 1..Len(probe.result.agentNeighbors) :
           probe.result.agentNeighbors[k].value # probe.result.id
     /\ Ascending(probe.result.obstaclNeighbors)
     /\ \A j \in OffersInRange(probe.result, probe.obstacleOffers, ProbeObstacles) :
           \E k \in 1..Len(probe.result.obstaclNeighbors) :
              probe.result.obstaclNeighbors[k].value = probe.obstacleOffers[j]
     /\ Len(probe.result.obstaclNeighbors)
          = Cardinality(OffersInRange(probe.result, probe.obstacleOffers, ProbeObstacles))

\* The agent was offered itself and more agents in range than maxNeighbors,
\* the nearest last, and three segments in range, the nearest last.
C14_Witness ==
  /\ probe.op = "computeNeighbors" /\ probe.done
  /\ probe.maxNeighbors = 2
  /\ probe.agentOffers = <<2, 0, 1>>
  /\ Len(probe.result.agentNeighbors) = 2
  /\ probe.result.agentNeighbors[1].value = 1
  /\ probe.obstacleOffers = <<2, 3, 4>>
  /\ Len(probe.result.obstaclNeighbors) = 3
  /\ probe.result.obstaclNeighbors[1].value = 4

(***************************************************************************)
(* The solve without neighbors.                                            *)
(***************************************************************************)
\* The rounding allowed to a rescaled vector, in units of 1 / SCALE.
Tolerance == SCALE \div 200

\* v is optVelocity rescaled to length radius: it has that length and
\* optVelocity's direction, up to rounding.
Rescaled(v, optVelocity, radius) ==
  /\ NumAbs(NumSub(abs(v), radius)) <= Tolerance
  /\ NumAbs(det(v, optVelocity)) <= Tolerance
  /\ multiply(v, optVelocity) >= 0

\* C15: passthrough.  An agent with no agent neighbor and no obstacle
\* neighbor gets from computeNewVelocity its prefVelocity itself when
\* |prefVelocity| <= maxSpeed and prefVelocity rescaled to length maxSpeed
\* otherwise; _linearProgram3 is not invoked (it is invoked exactly when
\* lineFail < orcaLines.length).
C15_Passthrough ==
  (/\ probe.op = "computeNewVelocity" /\ probe.done
   /\ probe.result.agentNeighbors = <<>>
   /\ probe.result.obstaclNeighbors = <<>>)
  => /\ IF absSq(probe.prefVelocity) <= sqr(probe.maxSpeed)
        THEN probe.result.newVelocity = probe.prefVelocity
        ELSE Rescaled(probe.result.newVelocity, probe.prefVelocity, probe.maxSpeed)
     /\ ~(probe.result.lineFail < Len(probe.result.orcaLines))

\* An agent that was offered itself and an agent out of range, and prefers
\* (2, -1.5) at maxSpeed 1, has got (0.8, -0.6).
C15_Witness ==
  /\ probe.op = "computeNewVelocity" /\ probe.done
  /\ probe.agentOffers = <<4, 0>>
  /\ probe.result.agentNeighbors = <<>>
  /\ probe.result.obstaclNeighbors = <<>>
  /\ probe.maxSpeed = SCALE
  /\ probe.prefVelocity = Vec(2 * SCALE, 0 - 3 * (SCALE \div 2))
  /\ probe.result.newVelocity = Vec(800, -600)

(***************************************************************************)
(* The half-plane of a line.                                               *)
(***************************************************************************)
\* cross(direction, candidate - point) of the Line's description.
Cross(line, candidate) == det(line.direction, minus(candidate, line.point))

\* The loop of _linearProgram2 tested the lines 0, 1, .. in order, up to the
\* line that failed or to the last.
TestedInOrder(lines, r) ==
  /\ Len(r.trace) = (IF r.lineFail < Len(lines) THEN r.lineFail + 1 ELSE Len(lines))
  /\ \A k \in 1..Len(r.trace) : r.trace[k].lineNo = k - 1

\* C16, as amended: the admissible side of a line is the one where
\* cross(direction, v - point) >= 0.  _linearProgram2 calls the 1D sub-solve
\* for line L exactly when cross(L.direction, L.point - v) > 0 for the
\* candidate v it holds, which for numbers is cross(L.direction, v - L.point)
\* < 0; any other candidate, one that gives not-a-number included, is kept.
C16_HalfPlane ==
  (probe.op = "linearProgram2" /\ probe.done) =>
     /\ TestedInOrder(probe.lines, probe.result)
     /\ \A k \in 1..Len(probe.result.trace) :
          LET e == probe.result.trace[k]
              L == At(probe.lines, e.lineNo)
          IN /\ e.subSolve <=> Gt(det(L.direction, minus(L.point, e.candidate)), 0)
             /\ ~IsNaN(Cross(L, e.candidate)) =>
                  (e.subSolve <=> Lt(Cross(L, e.candidate), 0))

\* Of two lines one was violated by the candidate and sub-solved, the other
\* was kept with the candidate strictly on its admissible side.
C16_Witness ==
  /\ probe.op = "linearProgram2" /\ probe.done
  /\ Len(probe.result.trace) = 2
  /\ probe.result.trace[1].subSolve
  /\ Lt(Cross(At(probe.lines, 0), probe.result.trace[1].candidate), 0)
  /\ ~probe.result.trace[2].subSolve
  /\ Gt(Cross(At(probe.lines, 1), probe.result.trace[2].candidate), 0)

\* C16, as stated: a candidate v satisfies line L exactly when
\* cross(L.direction, v - L.point) <= 0, and the 1D sub-solve is called for L
\* exactly when that inequality fails.
C16_HalfPlaneAsStated ==
  (probe.op = "linearProgram2" /\ probe.done) =>
     \A k \in 1..Len(probe.result.trace) :
        LET e == probe.result.trace[k]
        IN e.subSolve <=> ~Le(Cross(At(probe.lines, e.lineNo), e.candidate), 0)

(***************************************************************************)
(* Agent.update                                                            *)
(***************************************************************************)
\* An agent without what update() assigns: velocity (and which other
\* Vector2D object it is) and position.
ExceptCommitted(agent) ==
  [agent EXCEPT !.velocity = Undefined, !.velIsPref = FALSE, !.velIsDefault = FALSE,
                !.position = Undefined]

\* C17: update() commits the solved velocity.  In every update step of run()
\* the agent's velocity becomes the newVelocity the preceding
\* computeNewVelocity left, its position becomes the previous position plus
\* newVelocity * timeStep, every other field of the agent (prefVelocity,
\* radius, maxSpeed, the neighbor lists, orcaLines, ...) keeps its value, and
\* no other agent changes.
C17_UpdateCommits ==
  [][pc = "update" =>
       LET id == At(agents, runIndex)
       IN /\ objs'[id].velocity = objs[id].newVelocity
          /\ objs'[id].position
               = plus(objs[id].position, scale(objs[id].newVelocity, timeStep))
          /\ ExceptCommitted(objs'[id]) = ExceptCommitted(objs[id])
          /\ DOMAIN objs' = DOMAIN objs
          /\ \A other \in DOMAIN objs \ {id} : objs'[other] = objs[other]]_vars

\* Both agents of a run were updated; the second one avoided the first, so
\* its new velocity differs from the velocity it had and from its preference,
\* and it has moved.
C17_Witness ==
  /\ pc = "advance"
  /\ Len(agents) = 2
  /\ objs[At(agents, 1)].velocity # objs[At(agents, 1)].prefVelocity
  /\ objs[At(agents, 1)].velocity # Vec(0, 0)
  /\ ~VecIsNaN(objs[At(agents, 1)].velocity)
  /\ objs[At(agents, 1)].position # StartPosition(At(agents, 1))

(***************************************************************************)
(* The default template.                                                   *)
(***************************************************************************)
\* The parameters and the velocity of an agent.
Parameters(agent) ==
  [neighborDist |-> agent.neighborDist, maxNeighbors |-> agent.maxNeighbors,
   timeHorizon |-> agent.timeHorizon, timeHorizonObst |-> agent.timeHorizonObst,
   radius |-> agent.radius, maxSpeed |-> agent.maxSpeed, velocity |-> agent.velocity]

\* C19: defaults are copied by value.  An addAgent call that returns gives
\* the new agent the maxNeighbors, radius, maxSpeed, neighborDist,
\* timeHorizon, timeHorizonObst and velocity of the latest setAgentDefaults
\* and its start position as goal; a setAgentDefaults call changes no
\* parameter and no velocity of an agent that exists.
C19_DefaultsByValue ==
  [][/\ (lastCall'.op = "addAgent" /\ ~lastCall'.thrown /\ nextAgentId' # nextAgentId)
          => (/\ Parameters(objs'[lastCall'.ret]) = defaultAgent
              /\ goalsMap'[lastCall'.ret] = objs'[lastCall'.ret].position
              /\ objs'[lastCall'.ret].position = StartPosition(lastCall'.ret))
     /\ (defaultAgent' # defaultAgent)
          => (/\ DOMAIN objs' = DOMAIN objs
              /\ \A id \in DOMAIN objs :
                    Parameters(objs'[id]) = Parameters(objs[id]))]_vars

\* Agent 1 was added under the second template and has never moved; the
\* template has been replaced by the first one since, and agent 1 still has
\* the second template's parameters and velocity.
C19_Witness ==
  /\ Len(agentMap) = 2
  /\ defaultAgent # Undefined
  /\ defaultAgent.velocity = Vec(0, 0)
  /\ lastCall.op = "void"
  /\ objs[1].velocity = Vec(SCALE \div 2, SCALE \div 4)
  /\ objs[1].radius = SCALE \div 4
  /\ objs[1].maxNeighbors = 5
  /\ objs[0].radius = SCALE \div 2

HeadOnDistance == abs(minus(objs[0].position, objs[1].position))

C26_SubSolveRadius ==
  (probe.op = "linearProgram2" /\ probe.done) =>
     \A k \in 1..Len(probe.result.trace) :
        probe.result.trace[k].subSolve =>
           probe.result.trace[k].radius = probe.radius

(***************************************************************************)
(* The nearest neighbors.                                                  *)
(***************************************************************************)
\* The offers (places in the offered sequence) of agents other than the
\* querying one that lie within neighborDist of it.
AgentOffersInRange(self, offers, os) ==
  {j \in 1..Len(offers) :
     /\ offers[j] # self.id
     /\ Lt(absSq(minus(self.position, os[offers[j]].position)), sqr(self.neighborDist))}

\* The squared distance of the agent offered at place j.
OfferDistSq(self, offers, os, j) == absSq(minus(self.position, os[offers[j]].position))

AtMost(n, m) == IF n < m THEN n ELSE m

\* neighbors holds the n closest of the offers in range: for every distance d,
\* as many entries within d as there are offers within d, up to n.
ClosestKept(self, neighbors, offers, os, n) ==
  LET inRange == AgentOffersInRange(self, offers, os)
  IN /\ Len(neighbors) = AtMost(Cardinality(inRange), n)
     /\ \A i \in inRange :
          Cardinality({k \in 1..Len(neighbors) :
                         Le(neighbors[k].key, OfferDistSq(self, offers, os, i))})
            = AtMost(Cardinality({j \in inRange :
                                    Le(OfferDistSq(self, offers, os, j),
                                       OfferDistSq(self, offers, os, i))}), n)

\* C27: after the insertAgentNeighbor calls of one query the list holds the
\* min(maxNeighbors, number of candidates in range) closest candidates offered;
\* a candidate not closer than the worst entry of a full list is not inserted.
C27_ClosestNeighborsKept ==
  (probe.op = "computeNeighbors" /\ probe.done) =>
     ClosestKept(probe.result, probe.result.agentNeighbors, probe.agentOffers,
                 ProbeAgents(probe.maxNeighbors), probe.maxNeighbors)

(***************************************************************************)
(* The frame of setAgentPrefVelocity.                                      *)
(***************************************************************************)
\* C28: setAgentPrefVelocity(id, vx, vy) leaves the agent's current velocity
\* as it was, in every state reachable after any number of run() calls.
C28_PrefVelocityOnly ==
  [][\A id \in Range(agentMap) : \A v \in SteerVelocities :
       SetAgentPrefVelocity(id, v) => objs'[id].velocity = objs[id].velocity]_vars

(***************************************************************************)
(* The ORCA line of a colliding neighbor.                                  *)
(***************************************************************************)
\* C29: for every agent neighbor that is already colliding, the ORCA line
\* computeNewVelocity emits has a finite direction and a finite point
\* (checked right after computeNewVelocity).
C29_CollisionLineFinite ==
  pc = "update" =>
    LET self == objs[At(agents, runIndex)]
    IN \A k \in 1..Len(self.orcaInfo) :
         self.orcaInfo[k].branch = "collision" =>
            /\ ~VecIsNaN(self.orcaLines[k].direction)
            /\ ~VecIsNaN(self.orcaLines[k].point)

(***************************************************************************)
(* What an agent sees of the others within one run().                      *)
(***************************************************************************)
\* The place of agent id in the dense array, counted from 0.
PlaceOf(id) == CHOOSE i \in 0..(Len(agents) - 1) : At(agents, i) = id

\* The position and velocity of agent other as the agent at place j has to
\* see them: committed by update() for the places before j, as they were when
\* run() was entered for the places after j.
SeenPosition(other, j) ==
  IF PlaceOf(other) < j
  THEN plus(probe.start[other].position, scale(objs[other].newVelocity, timeStep))
  ELSE probe.start[other].position

SeenVelocity(other, j) ==
  IF PlaceOf(other) < j THEN objs[other].newVelocity ELSE probe.start[other].velocity

\* C30: within one run() the agent at place j computes its neighbors and its
\* ORCA lines from the committed (post-update) position and velocity of the
\* agents at the places before j and from the tick-start position and
\* velocity of the agents at the places after j.
C30_SequentialUpdate ==
  [][(probe.op = "run" /\ pc \in {"computeNeighbors", "computeNewVelocity"}) =>
       LET j == runIndex
           id == At(agents, j)
           before == probe.start[id]
           after == objs'[id]
       IN IF pc = "computeNeighbors"
          THEN \A k \in 1..Len(after.agentNeighbors) :
                 after.agentNeighbors[k].key
                   = absSq(minus(before.position,
                                 SeenPosition(after.agentNeighbors[k].value, j)))
          ELSE \A k \in 1..Len(after.orcaInfo) :
                 /\ after.orcaInfo[k].relativePosition
                      = minus(SeenPosition(after.orcaInfo[k].other, j), before.position)
                 /\ after.orcaInfo[k].relativeVelocity
                      = minus(before.velocity, SeenVelocity(after.orcaInfo[k].other, j))]_vars

\* The second agent of a run has built its ORCA line from the position the
\* first one moved to in this run, which is not where the first one was when
\* the run began.
C30_Witness ==
  /\ probe.op = "run"
  /\ pc = "update"
  /\ runIndex = 1
  /\ Len(objs[At(agents, 1)].orcaInfo) = 1
  /\ objs[At(agents, 0)].position # probe.start[At(agents, 0)].position
  /\ objs[At(agents, 1)].orcaInfo[1].relativePosition
       = minus(objs[At(agents, 0)].position, objs[At(agents, 1)].position)
  /\ objs[At(agents, 1)].orcaInfo[1].relativeVelocity
       # minus(objs[At(agents, 1)].velocity, probe.start[At(agents, 0)].velocity)

(***************************************************************************)
(* Query results.                                                          *)
(***************************************************************************)
\* The component set of an entity: empty when it has no components.
ComponentsOf(w, id) ==
  IF id \in DOMAIN w.entityComponentBits THEN w.entityComponentBits[id] ELSE {}

\* The live, active entities that satisfy a query's conditions.
LiveMatches(w, q) ==
  {id \in w.entities \cap w.active :
     /\ Queries[q].all \subseteq ComponentsOf(w, id)
     /\ Queries[q].any # {} => Queries[q].any \cap ComponentsOf(w, id) # {}
     /\ Queries[q].none \cap ComponentsOf(w, id) = {}}

\* C21: whatever was done to the World before, getEntities() returns, and
\* getCount() counts, exactly the live, active entities whose components
\* contain all of `all`, one of `any` when given, and none of `none`.
C21_QueryNeverStale ==
  [][\A q \in DOMAIN Queries :
       /\ getEntities(q) => world'.result.ids = LiveMatches(world', q)
       /\ getCount(q) =>
            world'.result.count = Cardinality(LiveMatches(world', q))]_vars

(***************************************************************************)
(* The order of the systems in an update.                                  *)
(***************************************************************************)
\* a is not after b: smaller priority, or the same and registered no later.
NotAfter(a, b) ==
  \/ a.priority < b.priority
  \/ a.priority = b.priority /\ a.stamp <= b.stamp

\* onUpdate of a system is called in this step.
UpdateCalls ==
  /\ world.update.pc = "loop"
  /\ world'.update.pc = "onUpdate"

\* The system whose onUpdate the step calls.
Called == world'.update.calls[Len(world'.update.calls)]

\* An update that nothing interfered with comes to its end in this step.
UpdateCompletes ==
  /\ world.update.pc = "loop"
  /\ world'.update.pc = "idle"
  /\ ~world.update.touched

\* C22: every onUpdate that World.update calls is that of a system that is
\* registered and enabled at that moment, and no system called before it in
\* the same update has a larger priority, or the same priority and a later
\* registration; an update during which the systems are left alone calls
\* every registered, enabled system, in ascending priority and, for equal
\* priorities, in registration order.
C22_UpdateOrder ==
  [][/\ UpdateCalls =>
          /\ \E k \in 1..Len(world.systems) :
               world.systems[k] = Called /\ world.systems[k].enabled
          /\ \A k \in 1..Len(world.update.calls) :
               NotAfter(world.update.calls[k], Called)
     /\ UpdateCompletes =>
          /\ world'.update.calls = SelectSeq(world.systems, LAMBDA s : s.enabled)
          /\ \A k, l \in 1..Len(world'.update.calls) :
               k < l => /\ NotAfter(world'.update.calls[k], world'.update.calls[l])
                        /\ world'.update.calls[k] # world'.update.calls[l]]_vars

(***************************************************************************)
(* The listeners an emit invokes.                                          *)
(***************************************************************************)
\* a is invoked before b: larger priority, or the same and registered first.
InvokedBefore(a, b) ==
  \/ a.priority > b.priority
  \/ a.priority = b.priority /\ a.id < b.id

\* The innermost emit returns in this step.
EmitReturns ==
  /\ dispatcher.frames # <<>>
  /\ Len(dispatcher'.frames) = Len(dispatcher.frames) - 1

\* C23: an emit that returns has invoked every listener that was registered
\* for the event when it was called, each once, in descending priority and,
\* for equal priorities, in registration order, whichever of them threw.
C23_EmitOrder ==
  [][EmitReturns =>
       /\ {Top.calls[k].listener : k \in 1..Len(Top.calls)} = Top.registered
       /\ Len(Top.calls) = Cardinality(Top.registered)
       /\ \A k, l \in 1..Len(Top.calls) :
            k < l => InvokedBefore(Top.calls[k].listener, Top.calls[l].listener)]_vars

\* An emit is about to return after three listeners, the first of which
\* threw; the first invoked was registered last, and two have one priority.
C23_Witness ==
  /\ dispatcher.frames # <<>>
  /\ Top.pc = "loop"
  /\ Top.index = Len(Top.eventListeners)
  /\ Len(Top.calls) = 3
  /\ Top.calls[1].thrown
  /\ Top.calls[1].listener.id > Top.calls[3].listener.id
  /\ Top.calls[2].listener.priority = Top.calls[3].listener.priority

\* C24: a listener registered with once is never invoked a second time.
C24_OnceAtMostOnce == dispatcher.refired = {}

(***************************************************************************)
(* The order of the hot updates.                                           *)
(***************************************************************************)
\* The entries whose manager is in the given state.
EntriesIn(state) ==
  {i \in 0..Len(hotUpdate.queue) - 1 : hotUpdate.queue[i + 1] = state}

\* C25: while the update of entry i is running every manager has reported
\* its check, every entry before i is flagged updated and no other update
\* is running; doHotUpdate has been called in queue order; the promise is
\* resolved at most once, and only with every entry flagged updated.
C25_SequentialHotUpdate ==
  /\ \A i \in EntriesIn("updating") :
       /\ EntriesIn("checking") = {}
       /\ hotUpdate.initUpdateCount = Len(hotUpdate.queue)
       /\ \A j \in 0..i - 1 : flagged(hotUpdate, j)
       /\ EntriesIn("updating") = {i}
  /\ \A k, l \in 1..Len(hotUpdate.updates) :
       k < l => hotUpdate.updates[k] < hotUpdate.updates[l]
  /\ hotUpdate.resolved <= 1
  /\ hotUpdate.resolved = 1 =>
       \A i \in 0..Len(hotUpdate.queue) - 1 : flagged(hotUpdate, i)

\* The promise is resolved after two of three entries have been updated,
\* one after the other.
C25_Witness ==
  /\ hotUpdate.resolved = 1
  /\ Len(hotUpdate.queue) = 3
  /\ Len(hotUpdate.updates) = 2

(***************************************************************************)
(* A failed 1D sub-solve.                                                  *)
(***************************************************************************)
\* The outcome of the 1D sub-solve that _linearProgram2 ran last.
LastSubSolve(p) ==
  linearProgram1(p.lines, p.result.lineFail,
                 SubSolveRadius(ProbeAgents(10)[0], p.radius),
                 p.target.optVelocity, p.target.directionOpt)

\* C31: when the 1D sub-solve of line i fails, _linearProgram2 returns i and
\* leaves as _newVelocity the candidate it held right before that sub-solve;
\* whether it fails or not, the _newVelocity it leaves has no component that
\* is not a number.
C31_FailedSubSolveKeepsCandidate ==
  (probe.op = "linearProgram2" /\ probe.done) =>
     /\ ~VecIsNaN(probe.result.newVelocity)
     /\ probe.result.lineFail < Len(probe.lines) =>
          /\ Len(probe.result.trace) = probe.result.lineFail + 1
          /\ probe.result.trace[Len(probe.result.trace)].subSolve
          /\ probe.result.trace[Len(probe.result.trace)].lineNo
               = probe.result.lineFail
          /\ probe.result.newVelocity
               = probe.result.trace[Len(probe.result.trace)].candidate
          /\ ~LastSubSolve(probe).ok

\* The sub-solve of the second line failed because its result was not a
\* number: the first line has a direction that is not a number.
C31_Witness ==
  /\ probe.op = "linearProgram2" /\ probe.done
  /\ Len(probe.lines) = 2
  /\ probe.result.lineFail = 1
  /\ LastSubSolve(probe).newVelocity # Undefined
  /\ VecIsNaN(LastSubSolve(probe).newVelocity)
  /\ VecIsNaN(At(probe.lines, 0).direction)

\* C32: when linearProgram2 reports success (lineFail is the number of lines)
\* its newVelocity satisfies every line it was given and lies within the disc
\* of the given radius; when it reports failure at line k, newVelocity
\* satisfies lines 0..k-1.  Lines whose direction is a number; a rounding
\* step of the fixed-point arithmetic is allowed for.
FiniteLines(lines) == \A k \in 1..Len(lines) : ~VecIsNaN(lines[k].direction)

satisfiesLine(line, v) == Ge(Cross(line, v), 0 - 2)

withinDisc(v, radius) == Le(absSq(v), sqr(radius) + RVO_EPSILON)

C32_SolutionFeasible ==
  (probe.op = "linearProgram2" /\ probe.done /\ FiniteLines(probe.lines)) =>
     /\ \A k \in 1..Len(probe.lines) :
          (k - 1 < probe.result.lineFail) =>
             satisfiesLine(probe.lines[k], probe.result.newVelocity)
     /\ (probe.result.lineFail = Len(probe.lines)) =>
          withinDisc(probe.result.newVelocity, probe.radius)

\* The sub-programs recorded of the fallback of the probe's agent.
SubPrograms == probe.result.fallback.trace

\* C33: computeNewVelocity calls linearProgram3 if and only if
\* linearProgram2 returned an index smaller than the number of ORCA lines,
\* with that index as the first line to process and with the number of
\* obstacle lines; every sub-program linearProgram3 solves begins with all
\* obstacle lines, unchanged; after a sub-program that failed the velocity
\* held before it is held.
C33_FallbackOnFailure ==
  (probe.op = "orca" /\ probe.done) =>
     /\ (probe.result.fallback # Undefined)
          <=> (probe.result.lineFail < Len(probe.result.orcaLines))
     /\ (probe.result.fallback # Undefined) =>
          /\ probe.result.fallback.beginLine = probe.result.lineFail
          /\ probe.result.fallback.numObstLines = Len(probe.result.obstInfo)
          /\ \A t \in 1..Len(SubPrograms) :
               /\ SubPrograms[t].lineNo >= probe.result.lineFail
               /\ Len(SubPrograms[t].projLines) >= Len(probe.result.obstInfo)
               /\ SubSeq(SubPrograms[t].projLines, 1, Len(probe.result.obstInfo))
                    = SubSeq(probe.result.orcaLines, 1, Len(probe.result.obstInfo))
               /\ SubPrograms[t].failed =>
                    SubPrograms[t].after = SubPrograms[t].before
          /\ SubPrograms # <<>> =>
               probe.result.newVelocity = SubPrograms[Len(SubPrograms)].after

\* A fallback beside an obstacle and an agent neighbor, one of whose
\* sub-programs failed and another moved the velocity.
C33_Witness ==
  /\ probe.op = "orca" /\ probe.done
  /\ probe.result.fallback # Undefined
  /\ Len(probe.result.obstInfo) >= 1
  /\ Len(probe.result.agentNeighbors) >= 1
  /\ \E t \in 1..Len(SubPrograms) : SubPrograms[t].failed
  /\ \E t \in 1..Len(SubPrograms) :
        ~SubPrograms[t].failed /\ SubPrograms[t].after # SubPrograms[t].before

\* C34: every computeNewVelocity starts from an empty list; when it ends the
\* list holds at most one line per obstacle neighbor, followed by exactly
\* one line per agent neighbor, so that an agent with maxNeighbors = 0 has
\* no agent line.
C34_OrcaLinesRebuilt ==
  (probe.op = "orca" /\ probe.done) =>
     /\ Len(probe.result.obstInfo) <= Len(probe.result.obstaclNeighbors)
     /\ Len(probe.result.orcaLines)
          = Len(probe.result.obstInfo) + Len(probe.result.agentNeighbors)
     /\ \A k \in 1..Len(probe.result.agentNeighbors) :
          probe.result.orcaLines[Len(probe.result.obstInfo) + k]
            = agentOrcaLine(OrcaAgents(probe)[0],
                            OrcaAgents(probe)[probe.result.agentNeighbors[k].value],
                            timeStep).line
     /\ probe.maxNeighbors = 0 =>
          Len(probe.result.orcaLines) = Len(probe.result.obstInfo)

\* The agent held a line of a former call, an obstacle neighbor gave no line
\* and another did, and both agent neighbors gave one.
C34_Witness ==
  /\ probe.op = "orca" /\ probe.done
  /\ probe.stale # <<>>
  /\ Len(probe.result.obstInfo) >= 1
  /\ Len(probe.result.obstInfo) < Len(probe.result.obstaclNeighbors)
  /\ Len(probe.result.agentNeighbors) = 2
  /\ Len(probe.result.orcaLines) = Len(probe.result.obstInfo) + 2

\* The distance from point c to line, whose direction is a unit vector.
distanceToLine(line, c) == NumAbs(det(line.direction, minus(c, line.point)))

\* Obstacle ORCA line k of the probe's agent is anchored at cutoff: it
\* passes at distance radius / timeHorizonObst from it, up to the rounding
\* of the fixed-point arithmetic.
AnchoredAt(self, k, cutoff) ==
  /\ Le(distanceToLine(self.orcaLines[k], cutoff),
        NumDiv(self.radius, self.timeHorizonObst) + RVO_EPSILON)
  /\ Ge(distanceToLine(self.orcaLines[k], cutoff),
        NumDiv(self.radius, self.timeHorizonObst) - RVO_EPSILON)

\* C35: every obstacle ORCA line emitted on a leg is anchored at that leg's
\* own cut-off center: a line projected on the left leg passes at distance
\* radius / timeHorizonObst from the left cut-off center and a line
\* projected on the right leg at that distance from the right one.
C35_LegAnchoredAtOwnCutoff ==
  (probe.op = "orca" /\ probe.done) =>
     \A k \in 1..Len(probe.result.obstInfo) :
        /\ probe.result.obstInfo[k].branch = "leftLeg" =>
             AnchoredAt(probe.result, k, probe.result.obstInfo[k].leftCutoff)
        /\ probe.result.obstInfo[k].branch = "rightLeg" =>
             AnchoredAt(probe.result, k, probe.result.obstInfo[k].rightCutoff)

\* 1 for a step that is a successful addAgent, 0 for any other.
Added ==
  IF defaultAgent # Undefined /\ AddAgent(StartPosition(nextAgentId)) THEN 1 ELSE 0

\* 1 for a step that is the removeAgent of a registered agent, 0 for any other.
Removed == IF \E id \in Range(agentMap) : RemoveAgent(id) THEN 1 ELSE 0

\* C36: in every reachable state getNumAgents() is the number of agents
\* added and not yet removed (0 at first, one more after every successful
\* addAgent, one less after every removeAgent of a registered agent, the
\* same after any other step), and whenever the dirty flag is clear the
\* dense array holds exactly the agents of the ID map, in insertion order.
C36_NumAgents ==
  /\ getNumAgents = 0
  /\ [][getNumAgents' = getNumAgents + Added - Removed]_vars
  /\ [](~agentsDirty => agents = agentMap)

\* Clean after a run: two agents were added, one of them was removed, and the
\* dense array holds the one that is left.
C36_Witness ==
  /\ ~agentsDirty
  /\ Len(issued) >= 2
  /\ Len(agentMap) = Len(issued) - 1
  /\ Len(agents) = Len(agentMap)
  /\ getNumAgents = Len(issued) - 1

\* C37: an entity returned by World.createEntity starts with no components,
\* also when its id was recycled and whatever was added to or removed from
\* any id before (ids that are not live entities included):
\* getComponents(newEntity.id) is empty and no query matches the new entity.
C37_NewEntityHasNoComponents ==
  [][createEntity =>
       /\ createEntityId(world) \in world'.entities
       /\ ComponentsOf(world', createEntityId(world)) = {}
       /\ \A q \in DOMAIN Queries :
            ~matchesEntity(Queries[q], world'.entityComponentBits,
                           createEntityId(world))]_vars

\* The first child from index start on that does not fail, the number of
\* children when there is none.
FirstNotFailing(start, outcomes) ==
  IF \A i \in start..Len(outcomes) - 1 : At(outcomes, i) = "failure"
  THEN Len(outcomes)
  ELSE CHOOSE i \in start..Len(outcomes) - 1 :
         /\ At(outcomes, i) # "failure"
         /\ \A j \in start..i - 1 : At(outcomes, j) = "failure"

\* The children from index a to index b, in order.
FromTo(a, b) == [k \in 1..(b - a + 1) |-> a + k - 1]

\* C38: Selector.execute runs its children in order from the child that was
\* RUNNING on the previous tick (from child 0 after a SUCCESS or a FAILURE),
\* up to the first that does not fail; it returns SUCCESS when that child
\* succeeds, RUNNING when it is running, and then remembers its index, and
\* FAILURE exactly when every child from the start index on failed; the
\* index is 0 after a SUCCESS or a FAILURE.
C38_SelectorExecute ==
  /\ [][SelectorExecute =>
         /\ probe'.tick.start = probe.currentChildIndex
         /\ probe.status = "running" =>
               probe'.tick.start = probe.tick.executed[Len(probe.tick.executed)]
         /\ probe.status # "running" => probe'.tick.start = 0
         /\ probe'.tick.executed =
               FromTo(probe'.tick.start,
                      IF FirstNotFailing(probe'.tick.start, probe'.tick.outcomes)
                           = probe.numChildren
                      THEN probe.numChildren - 1
                      ELSE FirstNotFailing(probe'.tick.start, probe'.tick.outcomes))
         /\ probe'.tick.returned =
               IF FirstNotFailing(probe'.tick.start, probe'.tick.outcomes)
                    = probe.numChildren
               THEN "failure"
               ELSE At(probe'.tick.outcomes,
                       FirstNotFailing(probe'.tick.start, probe'.tick.outcomes))
         /\ probe'.tick.returned = "running" => probe'.status = "running"
         /\ probe'.currentChildIndex =
               IF probe'.tick.returned = "running"
               THEN FirstNotFailing(probe'.tick.start, probe'.tick.outcomes)
               ELSE 0]_vars

\* A tick that started at child 1, which was running, found it failed and
\* child 2 running: child 0 was not executed again.
C38_Witness ==
  /\ probe.op = "selector"
  /\ probe.numChildren = 3
  /\ probe.tick.start = 1
  /\ probe.tick.executed = <<1, 2>>
  /\ probe.tick.returned = "running"
  /\ probe.currentChildIndex = 2

\* C39: every call of UntilSuccess.execute ends within the tick, for every
\* child: a call that is in its loop returns, also when the child fails on
\* every attempt; it returns SUCCESS when the child succeeded and RUNNING
\* when the child is running.
C39_UntilSuccessReturns ==
  /\ [][(untilSuccessPass /\ probe'.pc = "idle") =>
          (probe'.returned = childExecute(probe)
             /\ probe'.returned \in {"success", "running"})]_vars
  /\ (probe.op = "untilSuccess" /\ probe.pc = "loop")
        ~> (probe.op = "untilSuccess" /\ probe.pc = "idle")

(***************************************************************************)
(* The end of the hot updates.                                             *)
(***************************************************************************)
\* startUpdate has been called and no manager has an outcome left to
\* report: none is checking and none is updating.
AllReported ==
  /\ hotUpdate.endUpdateCallback
  /\ EntriesIn("checking") = {}
  /\ EntriesIn("updating") = {}

\* C40: once startUpdate has been called and every manager of the queue
\* (there may be none) has reported the outcome of its check and of its
\* update, the promise of startUpdate is resolved and every manager is
\* destroyed.
C40_QueueFinishes ==
  AllReported =>
    /\ hotUpdate.resolved = 1
    /\ \A i \in 0..Len(hotUpdate.queue) - 1 : managerIs(i, "destroyed")

====
